---- MODULE Spec2Model ----
(***************************************************************************)
(* Settings & module synchronisation model of the new-tab dashboard.       *)
(*                                                                         *)
(* JavaScript objects are functions from field names to values; a field    *)
(* that is absent from the domain is `undefined`.  Arrays are sequences.   *)
(* chrome.storage.sync is the function `store` from the keys that are set  *)
(* to their (serialised) values.  Every `await` on a storage write, an     *)
(* image preload or a network fetch is a point where other handlers run:   *)
(* the write sits in `pending`, the preload or fetch in                    *)
(* backgroundEngine.tasks, until a later step completes it.                *)
(***************************************************************************)
EXTENDS Integers, Sequences, FiniteSets, TLC

\* ---------------------------------------------------------------- bounds
\* storage writes in flight at once
MaxPending == 2
\* image preloads / API fetches in flight at once
MaxTasks == 2
\* images in the upload pool
MaxPool == 2
\* image URLs one API fetch returns (0..MaxFetch)
MaxFetch == 1
\* usage-tracking interval timers alive at once
MaxTimers == 2
\* sequential selections followed from cursor 0 over a fixed pool
MaxRun == 3
\* seconds a page is followed for after it opens
MaxElapsed == 50
\* pinned apps in the list
MaxApps == 3
\* tabs counted over the extension's lifetime
MaxTabs == 3
\* entries of the usage session log
MaxSessions == 2

\* ------------------------------------------------------------ JS helpers
\* obj.k is defined
Has(o, k) == k \in DOMAIN o

\* { ...a, ...b }
Spread(a, b) ==
  [k \in DOMAIN a \cup DOMAIN b |-> IF k \in DOMAIN b THEN b[k] ELSE a[k]]

\* o.k = v
Put(o, k, v) == [x \in DOMAIN o \cup {k} |-> IF x = k THEN v ELSE o[x]]

\* the object without field k (a field the serialiser skips)
Drop(o, k) == [x \in DOMAIN o \ {k} |-> o[x]]

\* array.splice(index, 1), index counted from 0; out of range removes nothing
Splice(s, index) ==
  IF index >= 0 /\ index < Len(s)
  THEN [i \in 1..(Len(s) - 1) |-> IF i <= index THEN s[i] ELSE s[i + 1]]
  ELSE s

\* the number NaN, kept apart from every array index
NaN == -1

\* null, among values that are tuples
Null == <<>>

\* what `new Image().src = undefined` asks for: the relative URL "undefined"
Undefined == "undefined"

\* ------------------------------------------------------- settings document
Sections == {"clock", "apps", "background", "stats"}

\* SettingsManager constructor, this.settings.clock
DefaultClock ==
  [format |-> "12", showSeconds |-> TRUE, showDate |-> TRUE, hidden |-> FALSE]

\* this.settings.apps (transparency in hundredths: 0.9 is 90)
DefaultApps ==
  [showNames |-> TRUE, padding |-> 10, transparency |-> 90,
   gridColumns |-> 10, gridRows |-> 2]

DefaultColorSettings == [color |-> "#1a1a1a"]

DefaultGradientSettings ==
  [type |-> "linear", color1 |-> "#667eea", color2 |-> "#764ba2"]

\* this.settings.background: uploadSettings has no currentIndex and
\* apiSettings has neither images nor currentIndex
DefaultBackground ==
  [type |-> "upload",
   uploadSettings |-> [images |-> <<>>, cycle |-> "refresh", order |-> "random"],
   colorSettings |-> DefaultColorSettings,
   gradientSettings |-> DefaultGradientSettings,
   apiSettings |-> [source |-> "unsplash", apiKey |-> "", query |-> "nature",
                    cycle |-> "refresh"]]

DefaultStats ==
  [enabled |-> TRUE, showUsageTime |-> TRUE, showTabsOpened |-> TRUE,
   showDaysUsed |-> TRUE, showTrackersBlocked |-> TRUE]

DefaultSettings ==
  [clock |-> DefaultClock, apps |-> DefaultApps,
   background |-> DefaultBackground, stats |-> DefaultStats]

\* resetToDefaults writes the same literal, except that apiSettings has no cycle
ResetSettings ==
  [DefaultSettings EXCEPT
     !.background.apiSettings =
        [source |-> "unsplash", apiKey |-> "", query |-> "nature"]]

\* ClockManager constructor, this.settings
ClockDefaults ==
  [showClock |-> TRUE, showSeconds |-> FALSE, use24HourFormat |-> FALSE,
   showDate |-> TRUE]

\* PinnedAppsManager constructor, this.settings (iconTransparency 1 is 100)
AppsDefaults ==
  [iconPadding |-> 16, iconTransparency |-> 100, showAppNames |-> TRUE]

\* BackgroundEngine constructor, this.settings
BackgroundDefaults ==
  [backgroundType |-> "upload",
   uploadSettings |-> [images |-> <<>>, cycle |-> "refresh", order |-> "random",
                       currentIndex |-> 0],
   colorSettings |-> DefaultColorSettings,
   gradientSettings |-> DefaultGradientSettings,
   apiSettings |-> [source |-> "unsplash", apiKey |-> "", query |-> "nature",
                    images |-> <<>>, currentIndex |-> 0]]


\* ------------------------------------------------------------------ state
VARIABLES
  store,              \* chrome.storage.sync: key -> stored value
  pending,            \* chrome.storage.sync.set calls not yet completed, oldest first
  listeners,          \* document.addEventListener: <<event type, module>>
  settingsManager,    \* window.settingsManager
  clockManager,       \* window.clockManager
  pinnedAppsManager,  \* window.pinnedAppsManager (its settings side)
  backgroundEngine,   \* window.backgroundEngine and its container's style
  statsTracker,       \* window.statsTracker (its settings side)
  seq,                \* per pool: the sequential selections made since the pool
                      \* was last fixed with cursor 0 (observation only)
  last                \* what the last step did (observation only)

vars ==
  <<store, pending, listeners, settingsManager, clockManager, pinnedAppsManager,
    backgroundEngine, statsTracker, seq, last>>

\* the sub-objects of the background section; a merge copies them by reference
SubObjects ==
  {"uploadSettings", "colorSettings", "gradientSettings", "apiSettings"}

\* the two image pools
Pools == {"uploadSettings", "apiSettings"}

\* files the user can pick as background images (data URLs after reading)
Images == {"img1", "img2"}

\* the URLs an API fetch yields, in response order
ApiUrls == <<"api1", "api2", "api3">>

\* Math.random() is r / RandomGrain for r in 0..RandomGrain-1
RandomGrain == 3
Randoms == 0..(RandomGrain - 1)

\* ---------------------------------------------------------- observation
\* op names the step only where a property is about it: a module's start-up
\* load (stored is what the read returned), the end of a settings save,
\* a removal from the upload pool
NoEvent ==
  [op |-> "", ok |-> TRUE, published |-> <<>>, delivered |-> <<>>,
   applies |-> <<>>, picks |-> <<>>, stored |-> <<>>, removed |-> <<>>,
   before |-> <<>>]

\* what chrome.storage.sync.get resolves with; nothing when it rejects
Read(st, ok) == IF ok THEN st ELSE <<>>

Ev(op, ok) == [NoEvent EXCEPT !.op = op, !.ok = ok]

NoRun == [on |-> FALSE, picks |-> <<>>]

\* ----------------------------------------------------------- serialisation
\* chrome.storage keeps JSON-like values: a property whose value is NaN is
\* skipped, as JSON.stringify skips undefined
SerializePool(p) ==
  IF Has(p, "currentIndex") /\ p.currentIndex = NaN THEN Drop(p, "currentIndex")
  ELSE p

\* a background document (the section of SettingsManager or the settings of
\* BackgroundEngine) as it is stored
SerializeBackground(b) ==
  [k \in DOMAIN b |-> IF k \in Pools THEN SerializePool(b[k]) ELSE b[k]]

SerializeSettings(s) ==
  [k \in DOMAIN s |-> IF k = "background" THEN SerializeBackground(s[k]) ELSE s[k]]


\* ------------------------------------------------------ BackgroundEngine
(***************************************************************************)
(* A handler of BackgroundEngine is a function on the working record       *)
(*   w = [bg, sms, pending, seq, applies]                                  *)
(* bg is backgroundEngine, sms is settingsManager.settings, applies lists  *)
(* the applyBackground calls that ended in this step.  bg.alias holds the  *)
(* sub-objects of bg.settings that are the very objects of                 *)
(* sms.background: updateSettings spreads event.detail, which copies the   *)
(* references, so a later write through either module is seen by both.     *)
(* For k in bg.alias the value is read from sms.background[k] and          *)
(* bg.settings[k] is the empty placeholder.                                *)
(***************************************************************************)
BgSub(w, k) ==
  IF k \in w.bg.alias THEN w.sms.background[k] ELSE w.bg.settings[k]

SetBgSub(w, k, v) ==
  IF k \in w.bg.alias THEN [w EXCEPT !.sms.background[k] = v]
  ELSE [w EXCEPT !.bg.settings[k] = v]

\* this.settings of BackgroundEngine with the shared sub-objects read through
BgSettings(w) ==
  [k \in DOMAIN w.bg.settings |-> IF k \in w.bg.alias THEN w.sms.background[k]
                                  ELSE w.bg.settings[k]]

\* order === 'random'; anything else, a missing order too, selects in sequence
IsRandom(p) == Has(p, "order") /\ p.order = "random"

\* the run of sequential selections over pool k starts afresh: it is followed
\* when the pool is non-empty, in sequential order, with cursor 0
Retrack(w, k) ==
  LET p == BgSub(w, k)
      on == /\ Has(p, "images") /\ Len(p.images) > 0
            /\ Has(p, "currentIndex") /\ p.currentIndex = 0
            /\ ~IsRandom(p)
  IN [w EXCEPT !.seq[k] = [on |-> on, picks |-> <<>>]]

\* after a step that may have written pool k otherwise than by selecting
RetrackIfChanged(before, w, k) ==
  IF BgSub(before, k) = BgSub(w, k) THEN w ELSE Retrack(w, k)

\* BackgroundEngine.saveSettings: chrome.storage.sync.set({backgroundSettings})
\* and what awaits it
BgSave(w, cont) ==
  [w EXCEPT !.pending =
     Append(@, [key |-> "backgroundSettings",
                value |-> SerializeBackground(BgSettings(w)),
                cont |-> cont])]

Ended(w, mode, why, url) ==
  [w EXCEPT !.applies = Append(@, [mode |-> mode, why |-> why, url |-> url])]

\* applyColorBackground
ApplyColorBackground(w) ==
  [w EXCEPT !.bg.style =
     [backgroundImage |-> "none",
      backgroundColor |-> BgSub(w, "colorSettings").color]]

\* applyGradientBackground
ApplyGradientBackground(w) ==
  [w EXCEPT !.bg.style =
     [backgroundImage |-> BgSub(w, "gradientSettings").type \o "-gradient",
      backgroundColor |-> "transparent"]]

\* a random index that never reaches the last image
RandomIndexShort(r, length) == (r * (length - 1)) \div RandomGrain

\* Math.floor(Math.random() * length)
RandomIndex(r, length) == (r * length) \div RandomGrain

\* the cursor as the selection finds or leaves it; undefined reads as NaN
CursorOf(p) == IF Has(p, "currentIndex") THEN p.currentIndex ELSE NaN

\* a cursor that wraps one position late
NextIndexLateWrap(currentIndex, length) == (currentIndex + 1) % (length + 1)

\* (currentIndex + 1) % length
NextIndex(currentIndex, length) == (currentIndex + 1) % length

\* images[imageIndex] for the currentIndex read from pool p
ImageAtCursor(p) ==
  IF Has(p, "currentIndex") /\ p.currentIndex >= 0
     /\ p.currentIndex < Len(p.images)
  THEN p.images[p.currentIndex + 1]
  ELSE Undefined

\* the cursor after imageIndex = currentIndex; currentIndex = (currentIndex+1) % n:
\* undefined + 1 and NaN + 1 are NaN
AdvancedCursor(p) ==
  IF Has(p, "currentIndex") /\ p.currentIndex # NaN
  THEN NextIndex(p.currentIndex, Len(p.images))
  ELSE NaN

\* the selection of applyUploadBackground / applyApiBackground over the
\* non-empty pool k, then setBackgroundImage(imageUrl) started
SelectAndPreload(w, k, mode, r) ==
  LET p == BgSub(w, k)
      imageIndex == IF IsRandom(p) THEN RandomIndex(r, Len(p.images))
                    ELSE CursorOf(p)
      url == IF imageIndex >= 0 /\ imageIndex < Len(p.images)
             THEN p.images[imageIndex + 1] ELSE Undefined
      w1 == IF IsRandom(p) THEN w
            ELSE SetBgSub(w, k, Put(p, "currentIndex", AdvancedCursor(p)))
      run == w.seq[k]
      w2 == IF IsRandom(p) \/ ~run.on THEN w1
            ELSE IF Len(run.picks) < MaxRun
                 THEN [w1 EXCEPT !.seq[k].picks = Append(@, p.currentIndex)]
                 ELSE [w1 EXCEPT !.seq[k] = NoRun]
      pick == [pool |-> k, random |-> IsRandom(p), index |-> imageIndex,
               length |-> Len(p.images), before |-> CursorOf(p),
               after |-> CursorOf(BgSub(w2, k))]
  IN [w2 EXCEPT !.picks = Append(@, pick),
                !.bg.tasks =
                   Append(@, [kind |-> "preload", mode |-> mode, url |-> url,
                              live |-> TRUE, obj |-> <<>>])]

\* applyUploadBackground up to its first await
ApplyUploadBackground(w, r) ==
  LET p == BgSub(w, "uploadSettings")
  IN IF Len(p.images) = 0
     THEN Ended(ApplyColorBackground(w), "upload", "empty", "")
     ELSE SelectAndPreload(w, "uploadSettings", "upload", r)

\* applyApiBackground up to its first await
ApplyApiBackground(w, r) ==
  LET p == BgSub(w, "apiSettings")
  IN IF ~Has(p, "apiKey") \/ p.apiKey = ""
     THEN Ended(ApplyColorBackground(w), "api", "nokey", "")
     ELSE IF ~Has(p, "images")
     \* apiSettings.images.length throws inside the try: caught, color
     THEN Ended(ApplyColorBackground(w), "api", "error", "")
     ELSE IF Len(p.images) = 0
     THEN [w EXCEPT !.bg.tasks =
             Append(@, [kind |-> "fetch", mode |-> "api", url |-> "",
                        live |-> TRUE, obj |-> <<>>])]
     ELSE SelectAndPreload(w, "apiSettings", "api", r)

\* applyBackground up to its first await
ApplyBackground(w, r) ==
  LET type == w.bg.settings.backgroundType
  IN CASE type = "upload" -> ApplyUploadBackground(w, r)
       [] type = "color" -> Ended(ApplyColorBackground(w), "color", "direct", "")
       [] type = "gradient" ->
            Ended(ApplyGradientBackground(w), "gradient", "direct", "")
       [] type = "api" -> ApplyApiBackground(w, r)
       [] OTHER -> Ended(ApplyColorBackground(w), "color", "direct", "")

\* handleBackgroundCycle
HandleBackgroundCycle(w, r) ==
  LET up == BgSub(w, "uploadSettings")
      api == BgSub(w, "apiSettings")
      type == w.bg.settings.backgroundType
  IN IF type = "upload" /\ Has(up, "cycle") /\ up.cycle = "newtab"
     THEN ApplyUploadBackground(w, r)
     ELSE IF type = "api" /\ Has(api, "cycle") /\ api.cycle = "newtab"
     THEN ApplyApiBackground(w, r)
     ELSE w

\* BackgroundEngine.loadSettings: { ...this.settings, ...result.backgroundSettings }
BgLoadSettings(settings, stored) == Spread(settings, stored)

\* BackgroundEngine.updateSettings up to its first await: the merge with
\* event.detail, whose sub-objects become shared with SettingsManager, and the
\* storage write issued.  A fetch in flight keeps the apiSettings object it
\* started with.
UpdateSettingsMerge(w, detail) ==
  LET shared == SubObjects \cap DOMAIN detail
      stale == "apiSettings" \in shared /\ "apiSettings" \notin w.bg.alias
      old == BgSub(w, "apiSettings")
      merged == Spread(BgSettings(w), detail)
      w1 == [w EXCEPT
               !.bg.settings = [k \in DOMAIN merged |->
                                  IF k \in shared \cup w.bg.alias THEN <<>>
                                  ELSE merged[k]],
               !.bg.alias = @ \cup shared,
               !.bg.tasks = [i \in DOMAIN @ |->
                               IF @[i].kind = "fetch" /\ @[i].live /\ stale
                               THEN [@[i] EXCEPT !.live = FALSE, !.obj = old]
                               ELSE @[i]]]
      w2 == RetrackIfChanged(w, RetrackIfChanged(w, w1, "uploadSettings"),
                             "apiSettings")
  IN BgSave(w2, "updateSettings")


\* ----------------------------------------------------------- ClockManager
\* a string is the sequence of its characters
Digits == <<"0", "1", "2", "3", "4", "5", "6", "7", "8", "9">>

\* padZero: num.toString().padStart(2, '0'), for 0 <= num <= 99
PadZero(num) ==
  IF num < 10 THEN <<"0", Digits[num + 1]>>
  ELSE <<Digits[(num \div 10) + 1], Digits[(num % 10) + 1]>>

\* the timeString of updateClock for the Date now = [h, m, s]
TimeString(now, use24HourFormat, showSeconds) ==
  LET ampm == IF now.h >= 12 THEN <<"P", "M">> ELSE <<"A", "M">>
      hours == IF now.h % 12 # 0 THEN now.h % 12 ELSE 12
      timeString ==
        IF use24HourFormat THEN PadZero(now.h) \o <<":">> \o PadZero(now.m)
        ELSE PadZero(hours) \o <<":">> \o PadZero(now.m) \o <<" ">> \o ampm
  IN IF showSeconds THEN timeString \o <<":">> \o PadZero(now.s)
     ELSE timeString

\* utils.formatTime(hours, minutes, seconds, format24, showSeconds)
FormatTime(hours, minutes, seconds, format24, showSeconds) ==
  LET period == IF format24 THEN <<>>
                ELSE IF hours >= 12 THEN <<" ", "P", "M">> ELSE <<" ", "A", "M">>
      formattedHours == IF format24 THEN hours
                        ELSE IF hours % 12 # 0 THEN hours % 12 ELSE 12
      timeString == PadZero(formattedHours) \o <<":">> \o PadZero(minutes)
      secondsString == IF showSeconds THEN <<":">> \o PadZero(seconds) ELSE <<>>
  IN timeString \o secondsString \o period

\* what new Date() can return: every hour, some minutes and seconds
MinuteSamples == {0, 9, 10, 59}
SecondSamples == {0, 9, 59}
Times == [h : 0..23, m : MinuteSamples, s : SecondSamples]

\* the time at which the page opens in the runs that do not follow the clock
StartTime == [h |-> 0, m |-> 0, s |-> 0]

\* what updateClock writes into the clock element: the format and whether
\* the seconds are appended (the digits are the current time)
UpdateClock(c) ==
  [c EXCEPT !.text = [rendered |-> TRUE, h24 |-> c.settings.use24HourFormat,
                      secs |-> c.settings.showSeconds],
            !.display = TimeString(c.now, c.settings.use24HourFormat,
                                   c.settings.showSeconds)]

\* updateDate
UpdateDate(c) == [c EXCEPT !.dateHidden = ~c.settings.showDate]

\* ClockManager.applySettings
ClockApplySettings(c) ==
  IF c.settings.showClock THEN UpdateClock([c EXCEPT !.hidden = FALSE])
  ELSE [c EXCEPT !.hidden = TRUE]

\* the id setInterval returns: one no live timer has
FreshTimer(ids) == CHOOSE n \in 1..(Cardinality(ids) + 1) : n \notin ids

\* a start that leaves the timer before running
StartClockKeeping(c) ==
  LET c1 == UpdateDate(UpdateClock(c))
      id == FreshTimer({t.id : t \in c1.timers})
  IN [c1 EXCEPT !.timers = @ \cup {[id |-> id, period |->
                                      IF c1.settings.showSeconds THEN 1000
                                      ELSE 60000]},
                !.interval = id]

\* startClock
StartClock(c) ==
  LET c1 == UpdateDate(UpdateClock(c))
      period == IF c1.settings.showSeconds THEN 1000 ELSE 60000
      kept == IF c1.interval # 0 THEN {t \in c1.timers : t.id # c1.interval}
              ELSE c1.timers
      id == FreshTimer({t.id : t \in kept})
  IN [c1 EXCEPT !.timers = kept \cup {[id |-> id, period |-> period]},
                !.interval = id]

\* ClockManager.loadSettings: the merge, then applySettings; a failed read is
\* caught before applySettings
ClockLoadSettings(c, stored, ok) ==
  IF ~ok THEN c
  ELSE ClockApplySettings(
         IF Has(stored, "clockSettings")
         THEN [c EXCEPT !.settings = Spread(@, stored.clockSettings)]
         ELSE c)

\* ClockManager.updateSettings, without the storage write it issues
ClockUpdateSettings(c, newSettings) ==
  LET oldShowSeconds == c.settings.showSeconds
      c1 == ClockApplySettings([c EXCEPT !.settings = Spread(@, newSettings)])
  IN IF oldShowSeconds # c1.settings.showSeconds THEN StartClock(c1) ELSE c1

\* ClockManager.destroy
ClockDestroy(c) ==
  IF c.interval # 0
  THEN [c EXCEPT !.timers = {t \in @ : t.id # c.interval}, !.interval = 0]
  ELSE c

\* ------------------------------------------------------ PinnedAppsManager
\* PinnedAppsManager.applySettings: the CSS variable, the name visibility and
\* the icon opacity now in effect
AppsApplySettings(a) == [a EXCEPT !.applied = a.settings]

\* PinnedAppsManager.updateSettings, without the storage write it issues
AppsUpdateSettings(a, newSettings) ==
  AppsApplySettings([a EXCEPT !.settings = Spread(@, newSettings)])

\* A text is a sequence of tokens: a space, a colon, or a run of other
\* characters.  String.prototype.trim():
RECURSIVE TrimStart(_)
TrimStart(text) ==
  IF text # <<>> /\ Head(text) = " " THEN TrimStart(Tail(text)) ELSE text

RECURSIVE TrimEnd(_)
TrimEnd(text) ==
  IF text # <<>> /\ text[Len(text)] = " "
  THEN TrimEnd(SubSeq(text, 1, Len(text) - 1)) ELSE text

Trim(text) == TrimEnd(TrimStart(text))

\* a URL parser that accepts every text
IsUrlAlways(url) == TRUE

\* new URL(url) does not throw: the text begins with a scheme and a colon
IsUrl(url) ==
  Len(url) >= 3 /\ url[1] \notin {" ", ":"} /\ url[2] = ":"

\* loadApps, the default apps
DefaultAppList ==
  <<[name |-> <<"Google">>, url |-> <<"https", ":", "//google.com">>,
     icon |-> "https://google.com/favicon.ico"],
    [name |-> <<"YouTube">>, url |-> <<"https", ":", "//youtube.com">>,
     icon |-> "https://youtube.com/favicon.ico"],
    [name |-> <<"GitHub">>, url |-> <<"https", ":", "//github.com">>,
     icon |-> "https://github.com/favicon.ico"]>>

\* The operators below work on x = [a, pending]: the manager and the storage
\* writes in flight.
\* saveApps: chrome.storage.sync.set({ pinnedApps: this.apps }) issued
SaveApps(x, cont) ==
  [x EXCEPT !.pending =
     Append(@, [key |-> "pinnedApps", value |-> x.a.apps, cont |-> cont])]

\* renderApps: one element per app, dataset.index its position from 0
RenderApps(a) == [a EXCEPT !.grid = [i \in 1..Len(a.apps) |-> i - 1]]

\* a test that takes the empty list for nothing stored
TruthyNonEmpty(value) == value # <<>>

\* if (result.pinnedApps): every array is truthy
Truthy(value) == TRUE

\* openEditModal
OpenEditModal(a, index) ==
  [a EXCEPT !.editingIndex = <<index>>, !.preview = a.apps[index + 1].icon,
            !.modal = TRUE]

\* closeEditModal
CloseEditModal(a) == [a EXCEPT !.modal = FALSE, !.editingIndex = Null]

\* an insertion at the front
Unshift(apps, item) == <<item>> \o apps

\* this.apps.push(item)
Push(apps, item) == Append(apps, item)

\* the item saveApp builds from the form
FormItem(a, form) ==
  [name |-> Trim(form.name), url |-> Trim(form.url), icon |-> a.preview]

\* saveApp accepts the form
FormAccepted(form) ==
  /\ Trim(form.name) # <<>> /\ Trim(form.url) # <<>>
  /\ IsUrl(Trim(form.url))

\* saveApp
SaveApp(x, form) ==
  LET a == x.a
      item == FormItem(a, form)
      apps == IF a.editingIndex # Null
              THEN [j \in 1..Len(a.apps) |->
                      IF j = a.editingIndex[1] + 1 THEN item ELSE a.apps[j]]
              ELSE Push(a.apps, item)
  IN IF FormAccepted(form)
     THEN LET x1 == SaveApps([x EXCEPT !.a = RenderApps([a EXCEPT !.apps = apps])],
                             "none")
          IN [x1 EXCEPT !.a = CloseEditModal(@)]
     ELSE x

\* deleteApp
DeleteApp(x) ==
  LET a == x.a
  IN IF a.editingIndex # Null
     THEN LET x1 == SaveApps(
                      [x EXCEPT !.a = RenderApps(
                         [a EXCEPT !.apps = Splice(@, a.editingIndex[1])])],
                      "none")
          IN [x1 EXCEPT !.a = CloseEditModal(@)]
     ELSE x

\* the grid with the dragged element put before or after the target
Moved(grid, dragged, target, before) ==
  LET rest == SelectSeq(grid, LAMBDA e : e # dragged)
      at == CHOOSE i \in 1..Len(rest) : rest[i] = target
      cut == IF before THEN at - 1 ELSE at
  IN SubSeq(rest, 1, cut) \o <<dragged>> \o SubSeq(rest, cut + 1, Len(rest))

\* a reorder that takes each element's position for its dataset.index
ReorderAppsByPosition(x) ==
  LET a == x.a
      newOrder == [i \in 1..Len(a.grid) |-> a.apps[a.grid[a.grid[i] + 1] + 1]]
  IN SaveApps([x EXCEPT !.a = RenderApps([a EXCEPT !.apps = newOrder])], "none")

\* reorderApps: the apps in the order of the grid's elements
ReorderApps(x) ==
  LET a == x.a
      newOrder == [i \in 1..Len(a.grid) |-> a.apps[a.grid[i] + 1]]
  IN SaveApps([x EXCEPT !.a = RenderApps([a EXCEPT !.apps = newOrder])], "none")

\* loadSettings, renderApps, setupEventListeners, applySettings of init
AppsStarted(a, st, ok) ==
  AppsApplySettings(RenderApps(
    [a EXCEPT !.pc = "ready",
              !.settings = IF ok /\ Has(st, "appsSettings")
                           THEN Spread(@, st.appsSettings) ELSE @]))

\* ------------------------------------------------------------ StatsTracker
\* startTracking: a new interval timer; the handle of the one before is
\* overwritten, not cleared
StartTracking(st) ==
  LET id == FreshTimer(st.timers)
  IN [st EXCEPT !.timers = @ \cup {id}, !.trackingInterval = id]

\* stopTracking
StopTracking(st) ==
  IF st.trackingInterval # 0
  THEN [st EXCEPT !.timers = @ \ {st.trackingInterval}, !.trackingInterval = 0]
  ELSE st

\* updateDisplay: the container's display, from settingsManager's stats section
UpdateDisplay(st, sms) ==
  [st EXCEPT !.display =
     IF Has(sms.stats, "enabled") /\ sms.stats.enabled THEN "block" ELSE "none"]

\* StatsTracker.handleSettingsChange
HandleSettingsChange(st, settings, sms) ==
  LET enabled == Has(settings, "enabled") /\ settings.enabled
      st1 == IF ~enabled THEN [StopTracking(st) EXCEPT !.display = "none"]
             ELSE [StartTracking(st) EXCEPT !.display = "block"]
  IN UpdateDisplay(st1, sms)

\* Times are whole seconds since the epoch.
DaySeconds == 86400
\* this.idleThreshold, in milliseconds
IdleThreshold == 30000
\* the days of sessions saveCurrentSession keeps
RetentionDays == 30

\* toISOString(): the day and the second of the day it prints
ToISOString(t) == <<t \div DaySeconds, t % DaySeconds>>
\* new Date(isoString), as seconds
DateOf(iso) == iso[1] * DaySeconds + iso[2]
\* toDateString(): the calendar day
ToDateString(t) == t \div DaySeconds

\* the midnight the pages of the model are opened around
Midnight == 40 * DaySeconds

\* StatsTracker constructor, this.stats
StatsDefaults ==
  [totalUsageTime |-> 0, tabsOpenedToday |-> 0, totalTabsOpened |-> 0,
   firstUseDate |-> Null, lastActiveDate |-> Null, trackersBlocked |-> 0,
   sessions |-> <<>>]

\* The operators below work on x = [t, pending, store]: the tracker, the
\* storage writes in flight and the store.
\* saveStats: chrome.storage.sync.set({ statsData: this.stats }) issued
SaveStats(x) ==
  [x EXCEPT !.pending =
     Append(@, [key |-> "statsData", value |-> x.t.stats, cont |-> "none"])]

\* the stored last-active date string differs from today's
NewDay(stats, now) ==
  IF stats.lastActiveDate = Null THEN TRUE
  ELSE ToDateString(DateOf(stats.lastActiveDate)) # ToDateString(now)

\* checkNewDay
CheckNewDay(x) ==
  IF NewDay(x.t.stats, x.t.now)
  THEN SaveStats([x EXCEPT !.t.stats.tabsOpenedToday = 0,
                           !.t.stats.lastActiveDate = ToISOString(x.t.now)])
  ELSE x

\* loadStats; earned starts from the total that was loaded
LoadStats(x, ok) ==
  IF ok /\ Has(x.store, "statsData")
  THEN LET merged == Spread(x.t.stats, x.store.statsData)
           dated == IF merged.firstUseDate = Null
                    THEN [merged EXCEPT !.firstUseDate = ToISOString(x.t.now)]
                    ELSE merged
       IN CheckNewDay([x EXCEPT !.t.stats = dated,
                                !.t.earned = dated.totalUsageTime])
  ELSE x

\* the callback of startTracking's interval
TrackingCallback(x, sms) ==
  LET t == x.t
      timeSinceLastActivity == (t.now - t.currentSession.lastActivity) * 1000
      timeDelta == t.now - t.currentSession.startTime
  IN IF t.isActive /\ timeSinceLastActivity < IdleThreshold
     THEN SaveStats([x EXCEPT
            !.t = UpdateDisplay(
                    [t EXCEPT !.stats.totalUsageTime = @ + timeDelta,
                              !.currentSession.activeTime = @ + timeDelta,
                              !.currentSession.startTime = t.now], sms)])
     ELSE x

\* the callbacks of n interval timers due at the same instant
RECURSIVE Fire(_, _, _)
Fire(x, sms, n) ==
  IF n = 0 THEN x ELSE Fire(TrackingCallback(x, sms), sms, n - 1)

\* the second that begins now counts as usage: the tracker is active and the
\* latest input is no older than the idle threshold
Counts(t) ==
  t.isActive /\ (t.now - t.currentSession.lastActivity) * 1000 <= IdleThreshold

\* k seconds pass with nothing but the interval callbacks, one round a
\* second; the write of a round has completed when the next round begins
RECURSIVE Elapse(_, _, _, _)
Elapse(x, sms, k, ok) ==
  IF k = 0 \/ x.t.pc # "ready" THEN x
  ELSE LET written ==
             [x EXCEPT
                !.store = IF ok /\ x.pending # <<>>
                          THEN Put(@, "statsData", x.pending[Len(x.pending)].value)
                          ELSE @,
                !.pending = <<>>,
                !.t.earned = IF Counts(x.t) THEN @ + 1 ELSE @,
                !.t.now = @ + 1]
       IN Elapse(Fire(written, sms, Cardinality(x.t.timers)), sms, k - 1, ok)

\* recordActivity
RecordActivity(t) ==
  LET t1 == [t EXCEPT !.currentSession.lastActivity = t.now]
  IN IF ~t1.isActive
     THEN [t1 EXCEPT !.isActive = TRUE, !.currentSession.startTime = t.now]
     ELSE t1

\* a filter that keeps every session
RecentAlways(session, now) == TRUE

\* session => new Date(session.date) > thirtyDaysAgo
Recent(session, now) == DateOf(session.date) > now - RetentionDays * DaySeconds

\* array.filter
RECURSIVE FilterRecent(_, _)
FilterRecent(sessions, now) ==
  IF sessions = <<>> THEN <<>>
  ELSE (IF Recent(Head(sessions), now) THEN <<Head(sessions)>> ELSE <<>>)
       \o FilterRecent(Tail(sessions), now)

\* saveCurrentSession
SaveCurrentSession(x) ==
  LET t == x.t
      session == [date |-> ToISOString(t.now),
                  duration |-> t.currentSession.activeTime,
                  tabsOpened |-> t.stats.tabsOpenedToday]
  IN IF t.currentSession.activeTime > 0
     THEN SaveStats([x EXCEPT !.t.stats.sessions =
                                FilterRecent(Append(@, session), t.now)])
     ELSE x

\* incrementTabCount
IncrementTabCount(x, sms) ==
  SaveStats([x EXCEPT
    !.t = UpdateDisplay([x.t EXCEPT !.stats.tabsOpenedToday = @ + 1,
                                    !.stats.totalTabsOpened = @ + 1], sms)])

\* -------------------------------------------------------- SettingsManager
\* a merge in which the defaults win over what is stored
SettingsLoadMergeDefaultsWin(settings, stored) == Spread(stored, settings)

\* SettingsManager.loadSettings: { ...this.settings, ...result.newTabSettings }
SettingsLoadMerge(settings, stored) == Spread(settings, stored)

\* a dispatch that leaves the stats section out
DispatchedEventsWithoutStats ==
  << [type |-> "clockSettingsChanged", section |-> "clock"],
     [type |-> "appSettingsChanged", section |-> "apps"],
     [type |-> "backgroundSettingsChanged", section |-> "background"] >>

\* the events dispatchSettingsEvents dispatches, in order, each with the
\* section of this.settings it carries as detail
DispatchedEvents ==
  << [type |-> "clockSettingsChanged", section |-> "clock"],
     [type |-> "appSettingsChanged", section |-> "apps"],
     [type |-> "backgroundSettingsChanged", section |-> "background"],
     [type |-> "statsSettingsChanged", section |-> "stats"] >>

\* the event type each module's setupEventListeners listens for
ListenedEvent ==
  [clock |-> "clockSettingsChanged", apps |-> "appsSettingsChanged",
   background |-> "backgroundSettingsChanged", stats |-> "statsSettingsChanged"]

Modules == DOMAIN ListenedEvent

\* dispatchSettingsEvents: the CustomEvents published
Publish(settings) ==
  [i \in DOMAIN DispatchedEvents |->
     [type |-> DispatchedEvents[i].type,
      detail |-> settings[DispatchedEvents[i].section]]]

\* document.dispatchEvent: the listeners called, each with the event's detail
Deliver(published, ls) ==
  LET hit(m) == {i \in DOMAIN published : <<published[i].type, m>> \in ls}
  IN [m \in {x \in Modules : hit(x) # {}} |->
        published[CHOOSE i \in hit(m) : TRUE].detail]


\* the settings form as the user leaves it before pressing Save
BaseForm ==
  [clock |-> DefaultClock,
   apps |-> [showNames |-> TRUE, padding |-> 10, transparency |-> 90],
   type |-> "upload",
   upload |-> [cycle |-> "refresh", order |-> "random"],
   color |-> DefaultColorSettings,
   gradient |-> DefaultGradientSettings,
   api |-> [source |-> "unsplash", apiKey |-> "", query |-> "nature"],
   stats |-> DefaultStats]

ColorForm ==
  [BaseForm EXCEPT
     !.clock = [format |-> "24", showSeconds |-> FALSE, showDate |-> TRUE,
                hidden |-> TRUE],
     !.apps.showNames = FALSE,
     !.type = "color",
     !.upload = [cycle |-> "newtab", order |-> "sequential"],
     !.stats.enabled = FALSE]

ApiForm ==
  [BaseForm EXCEPT
     !.type = "api",
     !.api = [source |-> "pexels", apiKey |-> "key", query |-> "nature"]]

SyncForms == {BaseForm, ColorForm}

FormInputs == SyncForms \cup {ApiForm}

\* saveCurrentSettings: the form fields assigned into this.settings, in place
SaveForm(settings, f) ==
  LET b == settings.background
  IN [settings EXCEPT
        !.clock = Spread(@, f.clock),
        !.apps = Spread(@, f.apps),
        !.background =
           [b EXCEPT !.type = f.type,
                     !.uploadSettings = Spread(@, f.upload),
                     !.colorSettings = Spread(@, f.color),
                     !.gradientSettings = Spread(@, f.gradient),
                     !.apiSettings = Spread(@, f.api)],
        !.stats = Spread(@, f.stats)]

\* a write that overtakes the writes in flight
SettingsSaveOvertaking(w) ==
  [w EXCEPT !.pending =
     <<[key |-> "newTabSettings", value |-> SerializeSettings(w.sms),
        cont |-> "saveSettings"]>> \o @]

\* SettingsManager.saveSettings: chrome.storage.sync.set({newTabSettings}) issued
SettingsSave(w) ==
  [w EXCEPT !.pending =
     Append(@, [key |-> "newTabSettings", value |-> SerializeSettings(w.sms),
                cont |-> "saveSettings"])]

\* this.settings of SettingsManager becomes a new object tree: BackgroundEngine
\* keeps the sub-objects it shared until then
Unshare(w) ==
  [w EXCEPT !.bg.settings = BgSettings(w), !.bg.alias = {}]

\* a validation that lets every document through
ValidateNothing(importedSettings) == TRUE

\* validateSettings returns without throwing
ValidateSettings(importedSettings) ==
  \A prop \in Sections : Has(importedSettings, prop)

\* importSettings up to the await in saveSettings, the file read and parsed:
\* validateSettings, then { ...this.settings, ...importedSettings }
ImportSettings(w, importedSettings) ==
  IF ValidateSettings(importedSettings)
  THEN SettingsSave([Unshare(w) EXCEPT !.sms = Spread(@, importedSettings)])
  ELSE w

\* -------------------------------------------------------------- the page
\* what chrome.storage.sync may hold when a page opens: nothing, or what an
\* earlier version or OptionsPage.importSettings put there
InitialStores ==
  { <<>>,
    [backgroundSettings |->
       [backgroundType |-> "upload",
        uploadSettings |-> [images |-> <<"img1", "img2">>, cycle |-> "newtab",
                            order |-> "sequential", currentIndex |-> 0]]],
    [backgroundSettings |->
       [backgroundType |-> "api",
        apiSettings |-> [source |-> "pexels", apiKey |-> "key",
                         query |-> "nature", images |-> <<>>,
                         currentIndex |-> 0]]] }

\* the modules as their constructors leave them at DOMContentLoaded
NewSettingsManager == [pc |-> "constructed", settings |-> DefaultSettings]

NewClockManager ==
  [pc |-> "constructed", settings |-> ClockDefaults, hidden |-> FALSE,
   text |-> [rendered |-> FALSE, h24 |-> FALSE, secs |-> FALSE],
   now |-> StartTime, display |-> <<>>,
   dateHidden |-> FALSE, interval |-> 0, timers |-> {}]

NewPinnedAppsManager ==
  [pc |-> "constructed", settings |-> AppsDefaults, applied |-> <<>>,
   apps |-> <<>>, grid |-> <<>>, editingIndex |-> Null, draggedIndex |-> Null,
   modal |-> FALSE, preview |-> ""]

NewBackgroundEngine ==
  [pc |-> "constructed", settings |-> BackgroundDefaults, alias |-> {},
   style |-> [backgroundImage |-> "", backgroundColor |-> ""], tasks |-> <<>>]

\* earned is an observation: the total as it was loaded plus the seconds
\* that counted as usage since
NewStatsTrackerAt(now) ==
  [pc |-> "constructed", trackingInterval |-> 0, timers |-> {}, display |-> "",
   stats |-> StatsDefaults,
   currentSession |-> [startTime |-> now, activeTime |-> 0, lastActivity |-> now],
   isActive |-> TRUE, now |-> now, earned |-> 0]

NewStatsTracker == NewStatsTrackerAt(Midnight)

NoRuns == [k \in Pools |-> NoRun]

\* every module as constructed, nothing in flight
Constructed ==
  /\ pending = <<>>
  /\ listeners = {}
  /\ settingsManager = NewSettingsManager
  /\ clockManager = NewClockManager
  /\ pinnedAppsManager = NewPinnedAppsManager
  /\ backgroundEngine = NewBackgroundEngine
  /\ statsTracker = NewStatsTracker
  /\ seq = NoRuns
  /\ last = NoEvent

Init == store \in InitialStores /\ Constructed

\* the working record of a step and the step's result
W ==
  [bg |-> backgroundEngine, sms |-> settingsManager.settings,
   pending |-> pending, seq |-> seq, applies |-> <<>>, picks |-> <<>>]

Commit(w, ev) ==
  /\ Len(w.pending) <= MaxPending
  /\ Len(w.bg.tasks) <= MaxTasks
  /\ backgroundEngine' = w.bg
  /\ settingsManager' = [settingsManager EXCEPT !.settings = w.sms]
  /\ pending' = w.pending
  /\ seq' = w.seq
  /\ last' = [ev EXCEPT !.applies = w.applies, !.picks = w.picks]

\* the sequence without its i-th element
Without(s, i) == [j \in 1..(Len(s) - 1) |-> IF j < i THEN s[j] ELSE s[j + 1]]


\* ----------------------------------------------------------------- actions
\* The user's gestures on the background (a file picked, a remove button of
\* either module, the tab shown again) reach a module once its start-up load
\* has returned, and one at a time: the next comes when the writes, preloads
\* and fetches of the one before have settled.
Settled == pending = <<>> /\ backgroundEngine.tasks = <<>>

\* the oldest storage write completes
Written(ok) ==
  IF ok THEN Put(store, Head(pending).key, Head(pending).value) ELSE store

\* SettingsManager.init: loadSettings, then setupEventListeners (the Save,
\* Reset and remove buttons work from here on)
SettingsManager_init(ok) ==
  /\ settingsManager.pc = "constructed"
  /\ settingsManager' =
       [pc |-> "ready",
        settings |-> IF ok /\ Has(store, "newTabSettings")
                     THEN SettingsLoadMerge(settingsManager.settings,
                                            store.newTabSettings)
                     ELSE settingsManager.settings]
  /\ last' = [Ev("SettingsManager.init", TRUE) EXCEPT !.stored = Read(store, ok)]
  /\ UNCHANGED <<store, pending, listeners, clockManager, pinnedAppsManager,
                 backgroundEngine, statsTracker, seq>>

\* ClockManager.init: loadSettings, startClock, setupEventListeners
ClockManager_init(ok) ==
  /\ clockManager.pc = "constructed"
  /\ clockManager' =
       [StartClock(ClockLoadSettings(clockManager, store, ok))
          EXCEPT !.pc = "ready"]
  /\ listeners' = listeners \cup {<<ListenedEvent.clock, "clock">>}
  /\ last' = [Ev("ClockManager.init", TRUE) EXCEPT !.stored = Read(store, ok)]
  /\ UNCHANGED <<store, pending, settingsManager, pinnedAppsManager,
                 backgroundEngine, statsTracker, seq>>

\* PinnedAppsManager.init when the apps are stored or their read fails:
\* loadApps, loadSettings, renderApps, setupEventListeners, applySettings
PinnedAppsManager_init(ok) ==
  /\ pinnedAppsManager.pc = "constructed"
  /\ ~ok \/ (Has(store, "pinnedApps") /\ Truthy(store.pinnedApps))
  /\ pinnedAppsManager' =
       AppsStarted([pinnedAppsManager EXCEPT
                      !.apps = IF ok THEN store.pinnedApps ELSE <<>>],
                   store, ok)
  /\ listeners' = listeners \cup {<<ListenedEvent.apps, "apps">>}
  /\ last' = [Ev("PinnedAppsManager.init", TRUE) EXCEPT !.stored = Read(store, ok)]
  /\ UNCHANGED <<store, pending, settingsManager, clockManager,
                 backgroundEngine, statsTracker, seq>>

\* PinnedAppsManager.init when no apps are stored: loadApps up to
\* `await this.saveApps()` of the default apps
PinnedAppsManager_loadDefaultApps ==
  /\ pinnedAppsManager.pc = "constructed"
  /\ ~(Has(store, "pinnedApps") /\ Truthy(store.pinnedApps))
  /\ Len(pending) < MaxPending
  /\ pinnedAppsManager' = [pinnedAppsManager EXCEPT !.pc = "loadApps",
                                                    !.apps = DefaultAppList]
  /\ pending' = Append(pending, [key |-> "pinnedApps", value |-> DefaultAppList,
                                 cont |-> "loadApps"])
  /\ last' = NoEvent
  /\ UNCHANGED <<store, listeners, settingsManager, clockManager,
                 backgroundEngine, statsTracker, seq>>

\* the write of the default apps has completed: the rest of init
PinnedAppsManager_loadApps(written, ok) ==
  /\ pending # <<>> /\ Head(pending).cont = "loadApps"
  /\ store' = Written(written)
  /\ pending' = Tail(pending)
  /\ pinnedAppsManager' = AppsStarted(pinnedAppsManager, store', ok)
  /\ listeners' = listeners \cup {<<ListenedEvent.apps, "apps">>}
  /\ last' = [Ev("PinnedAppsManager.init", TRUE) EXCEPT !.stored = Read(store', ok)]
  /\ UNCHANGED <<settingsManager, clockManager, backgroundEngine, statsTracker,
                 seq>>

\* the manager and the writes in flight an apps step works on
A == [a |-> pinnedAppsManager, pending |-> pending]

\* the state of the apps as a step found it
AppsBefore ==
  [apps |-> pinnedAppsManager.apps,
   editingIndex |-> pinnedAppsManager.editingIndex,
   preview |-> pinnedAppsManager.preview,
   grid |-> pinnedAppsManager.grid, pending |-> pending, store |-> store]

\* what an apps step leaves behind
Keep(x, ev) ==
  /\ Len(x.pending) <= MaxPending
  /\ Len(x.a.apps) <= MaxApps
  /\ pinnedAppsManager' = x.a
  /\ pending' = x.pending
  /\ last' = ev
  /\ UNCHANGED <<store, listeners, settingsManager, clockManager,
                 backgroundEngine, statsTracker, seq>>

\* The edit modal covers the grid: the grid's gestures come while it is
\* closed, the modal's buttons while it is open; and a gesture comes when
\* the storage writes before it have completed.  No click comes while a drag
\* is under way.
\* the add button
PinnedAppsManager_addButton ==
  /\ pinnedAppsManager.pc = "ready" /\ ~pinnedAppsManager.modal
  /\ pinnedAppsManager.draggedIndex = Null
  /\ pending = <<>>
  /\ Keep([A EXCEPT !.a.editingIndex = Null, !.a.preview = "",
                    !.a.modal = TRUE], NoEvent)

\* a double click on the app at dataset.index index
PinnedAppsManager_openEditModal(index) ==
  /\ pinnedAppsManager.pc = "ready" /\ ~pinnedAppsManager.modal
  /\ pinnedAppsManager.draggedIndex = Null
  /\ pending = <<>>
  /\ index < Len(pinnedAppsManager.grid)
  /\ Keep([A EXCEPT !.a = OpenEditModal(@, index)], NoEvent)

\* the close button, or a click beside the dialog
PinnedAppsManager_closeEditModal ==
  /\ pinnedAppsManager.modal
  /\ Keep([A EXCEPT !.a = CloseEditModal(@)], NoEvent)

\* Escape: NewTabApp.closeAllModals takes the modal away, editingIndex stays
NewTabApp_closeAllModals ==
  /\ pinnedAppsManager.modal
  /\ Keep([A EXCEPT !.a.modal = FALSE], NoEvent)

\* the save button of the modal
PinnedAppsManager_saveApp(form) ==
  /\ pinnedAppsManager.modal
  /\ Keep(SaveApp(A, form),
          [Ev("saveApp", FormAccepted(form)) EXCEPT
             !.stored = form, !.before = AppsBefore])

\* the delete button of the modal
PinnedAppsManager_deleteApp ==
  /\ pinnedAppsManager.modal
  /\ Keep(DeleteApp(A), [Ev("deleteApp", TRUE) EXCEPT !.before = AppsBefore])

\* dragstart on the app at dataset.index index
PinnedAppsManager_dragstart(index) ==
  /\ pinnedAppsManager.pc = "ready" /\ ~pinnedAppsManager.modal
  /\ pending = <<>>
  /\ pinnedAppsManager.draggedIndex = Null
  /\ index < Len(pinnedAppsManager.grid)
  /\ Keep([A EXCEPT !.a.draggedIndex = <<index>>], NoEvent)

\* dragover on the app at dataset.index target, left or right of its middle
PinnedAppsManager_dragover(target, before) ==
  /\ pinnedAppsManager.draggedIndex # Null
  /\ target < Len(pinnedAppsManager.grid)
  /\ Keep([A EXCEPT !.a.grid =
                      IF pinnedAppsManager.draggedIndex[1] # target
                      THEN Moved(@, pinnedAppsManager.draggedIndex[1], target,
                                 before)
                      ELSE @], NoEvent)

\* drop on an app, then dragend: reorderApps
PinnedAppsManager_drop ==
  /\ pinnedAppsManager.draggedIndex # Null
  /\ Keep([ReorderApps(A) EXCEPT !.a.draggedIndex = Null],
          [Ev("reorderApps", TRUE) EXCEPT !.before = AppsBefore])

\* dragend with no drop on an app: the button released elsewhere, Escape
PinnedAppsManager_dragend ==
  /\ pinnedAppsManager.draggedIndex # Null
  /\ Keep([A EXCEPT !.a.draggedIndex = Null], NoEvent)

\* BackgroundEngine.init: loadSettings; applyBackground(), not awaited;
\* setupEventListeners, which ends with handleBackgroundCycle()
BackgroundEngine_init(ok, r1, r2) ==
  /\ backgroundEngine.pc = "constructed"
  /\ LET w0 == [W EXCEPT
                  !.bg.pc = "ready",
                  !.bg.settings = IF ok /\ Has(store, "backgroundSettings")
                                  THEN BgLoadSettings(@, store.backgroundSettings)
                                  ELSE @]
         w1 == Retrack(Retrack(w0, "uploadSettings"), "apiSettings")
         w2 == HandleBackgroundCycle(ApplyBackground(w1, r1), r2)
     IN Commit(w2, [Ev("BackgroundEngine.init", TRUE) EXCEPT !.stored = Read(store, ok)])
  /\ listeners' = listeners \cup {<<ListenedEvent.background, "background">>}
  /\ UNCHANGED <<store, clockManager, pinnedAppsManager, statsTracker>>

\* the tracker, the writes in flight and the store a stats step works on
X == [t |-> statsTracker, pending |-> pending, store |-> store]

\* what a stats step leaves behind
Leave(x, ev) ==
  /\ Len(x.pending) <= MaxPending
  /\ Len(x.t.stats.sessions) <= MaxSessions
  /\ statsTracker' = x.t
  /\ pending' = x.pending
  /\ store' = x.store
  /\ last' = ev
  /\ UNCHANGED <<settingsManager, clockManager, pinnedAppsManager,
                 backgroundEngine, seq>>

\* StatsTracker.init: loadStats, startTracking, setupEventListeners,
\* updateDisplay
StatsTracker_init(ok) ==
  /\ statsTracker.pc = "constructed"
  /\ LET x == LoadStats(X, ok)
     IN Leave([x EXCEPT !.t = [UpdateDisplay(StartTracking(x.t),
                                             settingsManager.settings)
                                 EXCEPT !.pc = "ready"]],
              Ev("StatsTracker.init", TRUE))
  /\ listeners' = listeners \cup {<<ListenedEvent.stats, "stats">>}

\* k seconds pass on the open page, the writes before them completed
StatsTracker_interval(k, ok) ==
  /\ statsTracker.pc = "ready" /\ pending = <<>>
  /\ statsTracker.now + k <= Midnight + MaxElapsed
  /\ Leave(Elapse(X, settingsManager.settings, k, ok), NoEvent)
  /\ UNCHANGED listeners

\* mousemove, keypress or click: recordActivity
StatsTracker_recordActivity ==
  /\ statsTracker.pc = "ready"
  /\ Leave([X EXCEPT !.t = RecordActivity(@)], NoEvent)
  /\ UNCHANGED listeners

\* the window gains the focus
StatsTracker_focus ==
  /\ statsTracker.pc = "ready"
  /\ Leave([X EXCEPT !.t.isActive = TRUE,
                     !.t.currentSession.startTime = statsTracker.now], NoEvent)
  /\ UNCHANGED listeners

\* the window loses the focus: saveCurrentSession
StatsTracker_blur ==
  /\ statsTracker.pc = "ready"
  /\ Leave(SaveCurrentSession([X EXCEPT !.t.isActive = FALSE]),
           [Ev("saveCurrentSession", TRUE) EXCEPT !.before = statsTracker])
  /\ UNCHANGED listeners

\* beforeunload: saveCurrentSession, and the page is gone
StatsTracker_beforeunload ==
  /\ statsTracker.pc = "ready"
  /\ Leave([SaveCurrentSession(X) EXCEPT !.t.pc = "unloaded"],
           [Ev("saveCurrentSession", TRUE) EXCEPT !.before = statsTracker])
  /\ UNCHANGED listeners

\* chrome.tabs.onCreated: incrementTabCount
StatsTracker_incrementTabCount ==
  /\ statsTracker.pc = "ready"
  /\ statsTracker.stats.totalTabsOpened < MaxTabs
  /\ Leave(IncrementTabCount(X, settingsManager.settings),
           [Ev("incrementTabCount", TRUE) EXCEPT !.before = statsTracker])
  /\ UNCHANGED listeners

\* NewTabApp.handleVisibilityChange when the tab is hidden
NewTabApp_handleVisibilityHidden ==
  /\ statsTracker.pc = "ready"
  /\ Leave([X EXCEPT !.t.isActive = FALSE], NoEvent)
  /\ UNCHANGED listeners

\* the Save button: saveCurrentSettings up to the await in saveSettings
SettingsManager_saveCurrentSettings(f) ==
  /\ settingsManager.pc = "ready"
  /\ LET w1 == [W EXCEPT !.sms = SaveForm(@, f)]
         w2 == RetrackIfChanged(W, RetrackIfChanged(W, w1, "uploadSettings"),
                                "apiSettings")
     IN Commit(SettingsSave(w2), NoEvent)
  /\ UNCHANGED <<store, listeners, clockManager, pinnedAppsManager, statsTracker>>

\* the Save button pressed with nothing in flight
SettingsManager_saveWhenSettled(f) ==
  Settled /\ SettingsManager_saveCurrentSettings(f)

\* the Reset button, confirmed: resetToDefaults up to the await in saveSettings
SettingsManager_resetToDefaults ==
  /\ settingsManager.pc = "ready"
  /\ LET w1 == [Unshare(W) EXCEPT !.sms = ResetSettings]
     IN Commit(SettingsSave(w1), NoEvent)
  /\ UNCHANGED <<store, listeners, clockManager, pinnedAppsManager, statsTracker>>

\* a file chosen in the import dialog: SettingsManager.importSettings
SettingsManager_importSettings(importedSettings) ==
  /\ settingsManager.pc = "ready" /\ Settled
  /\ Commit(ImportSettings(W, importedSettings),
            [Ev("importSettings", ValidateSettings(importedSettings)) EXCEPT
               !.stored = importedSettings,
               !.before = [settings |-> settingsManager.settings,
                           pending |-> pending, store |-> store]])
  /\ UNCHANGED <<store, listeners, clockManager, pinnedAppsManager, statsTracker>>

\* a remove button of the settings panel: SettingsManager.removeUploadedImage
SettingsManager_removeUploadedImage(index) ==
  /\ settingsManager.pc = "ready" /\ Settled
  /\ index < Len(settingsManager.settings.background.uploadSettings.images)
  /\ LET w1 == [W EXCEPT !.sms.background.uploadSettings.images =
                           Splice(@, index)]
         w2 == RetrackIfChanged(W, w1, "uploadSettings")
     IN Commit(SettingsSave(w2), NoEvent)
  /\ UNCHANGED <<store, listeners, clockManager, pinnedAppsManager, statsTracker>>

\* saveSettings of SettingsManager after its await: on success the status
\* message and dispatchSettingsEvents, whose listeners run before it returns;
\* on failure the catch
SettingsManager_saveSettings(ok) ==
  /\ pending # <<>> /\ Head(pending).cont = "saveSettings"
  /\ store' = Written(ok)
  /\ LET published == IF ok THEN Publish(settingsManager.settings) ELSE <<>>
         delivered == Deliver(published, listeners)
         got(m) == m \in DOMAIN delivered
         c == IF got("clock")
              THEN ClockUpdateSettings(clockManager, delivered.clock)
              ELSE clockManager
         a == IF got("apps")
              THEN AppsUpdateSettings(pinnedAppsManager, delivered.apps)
              ELSE pinnedAppsManager
         p1 == Tail(pending)
               \o (IF got("clock")
                   THEN <<[key |-> "clockSettings", value |-> c.settings,
                           cont |-> "none"]>>
                   ELSE <<>>)
               \o (IF got("apps")
                   THEN <<[key |-> "appsSettings", value |-> a.settings,
                           cont |-> "none"]>>
                   ELSE <<>>)
         w0 == [W EXCEPT !.pending = p1]
         w1 == IF got("background")
               THEN UpdateSettingsMerge(w0, delivered.background)
               ELSE w0
     IN /\ clockManager' = c
        /\ pinnedAppsManager' = a
        /\ statsTracker' =
             IF got("stats")
             THEN HandleSettingsChange(statsTracker, delivered.stats, w1.sms)
             ELSE statsTracker
        /\ Cardinality(statsTracker'.timers) <= MaxTimers
        /\ Commit(w1, [Ev("saveSettings", ok) EXCEPT
                         !.published = published, !.delivered = delivered,
                         !.stored = Head(pending).value])
  /\ UNCHANGED listeners

\* BackgroundEngine.updateSettings after `await this.saveSettings()`:
\* applyBackground
BackgroundEngine_updateSettings(ok, r) ==
  /\ pending # <<>> /\ Head(pending).cont = "updateSettings"
  /\ store' = Written(ok)
  /\ Commit(ApplyBackground([W EXCEPT !.pending = Tail(@)], r),
            Ev("updateSettings", ok))
  /\ UNCHANGED <<listeners, clockManager, pinnedAppsManager, statsTracker>>

\* a storage write that nothing but its own catch awaits completes
StorageWritten(ok) ==
  /\ pending # <<>> /\ Head(pending).cont = "none"
  /\ store' = Written(ok)
  /\ pending' = Tail(pending)
  /\ last' = NoEvent
  /\ UNCHANGED <<listeners, settingsManager, clockManager, pinnedAppsManager,
                 backgroundEngine, statsTracker, seq>>


\* BackgroundEngine.addUploadedImage at reader.onload: the data URL pushed and
\* the storage write issued
AddUploadedImage(w, image) ==
  LET p == BgSub(w, "uploadSettings")
      w1 == SetBgSub(w, "uploadSettings", Put(p, "images", Append(p.images, image)))
  IN BgSave(RetrackIfChanged(w, w1, "uploadSettings"), "addUploadedImage")

\* NewTabApp.handleBackgroundImageUpload with one file chosen: an image file
\* is added and applyBackground follows the write; any other file is skipped
\* and applyBackground runs at once
NewTabApp_handleBackgroundImageUpload(isImage, image, r) ==
  /\ backgroundEngine.pc = "ready" /\ Settled
  /\ isImage => Len(BgSub(W, "uploadSettings").images) < MaxPool
  /\ Commit(IF isImage THEN AddUploadedImage(W, image) ELSE ApplyBackground(W, r),
            NoEvent)
  /\ UNCHANGED <<store, listeners, clockManager, pinnedAppsManager, statsTracker>>

\* handleBackgroundImageUpload after `await addUploadedImage(file)`:
\* applyBackground
BackgroundEngine_addUploadedImage(ok, r) ==
  /\ pending # <<>> /\ Head(pending).cont = "addUploadedImage"
  /\ store' = Written(ok)
  /\ Commit(ApplyBackground([W EXCEPT !.pending = Tail(@)], r),
            NoEvent)
  /\ UNCHANGED <<listeners, clockManager, pinnedAppsManager, statsTracker>>

\* currentIndex >= images.length: false for undefined and for NaN
CursorBeyond(p) ==
  Has(p, "currentIndex") /\ p.currentIndex # NaN
  /\ p.currentIndex >= Len(p.images)

\* BackgroundEngine.removeUploadedImage up to its await
RemoveUploadedImage(w, index) ==
  LET p == BgSub(w, "uploadSettings")
      p1 == Put(p, "images", Splice(p.images, index))
      p2 == IF CursorBeyond(p1) THEN Put(p1, "currentIndex", 0) ELSE p1
      w1 == SetBgSub(w, "uploadSettings", p2)
  IN IF index >= 0 /\ index < Len(p.images)
     THEN BgSave(RetrackIfChanged(w, w1, "uploadSettings"), "none")
     ELSE w

BackgroundEngine_removeUploadedImage(index) ==
  /\ backgroundEngine.pc = "ready" /\ Settled
  /\ LET p == BgSub(W, "uploadSettings")
     IN Commit(RemoveUploadedImage(W, index),
               [Ev("BackgroundEngine.removeUploadedImage",
                   index < Len(p.images))
                 EXCEPT !.removed =
                    [cursor |-> IF Has(p, "currentIndex") THEN p.currentIndex
                                ELSE NaN,
                     length |-> Len(Splice(p.images, index))]])
  /\ UNCHANGED <<store, listeners, clockManager, pinnedAppsManager, statsTracker>>

\* setBackgroundImage settles.  img.onload: the image becomes the background,
\* then the caller saves the settings.  img.onerror: the promise rejects;
\* applyApiBackground catches and applies the color, applyUploadBackground
\* has no catch and no caller of it applies anything
SetBackgroundImageSettled(w, i, loaded) ==
  LET t == w.bg.tasks[i]
      w1 == [w EXCEPT !.bg.tasks = Without(@, i)]
  IN IF loaded
     THEN Ended(BgSave([w1 EXCEPT !.bg.style =
                          [backgroundImage |-> t.url,
                           backgroundColor |-> "transparent"]], "none"),
                t.mode, "loaded", t.url)
     ELSE IF t.mode = "api"
     THEN Ended(ApplyColorBackground(w1), "api", "preloadfail", t.url)
     ELSE Ended(w1, "upload", "preloadfail", t.url)

BackgroundEngine_setBackgroundImage(i, loaded) ==
  /\ i \in DOMAIN backgroundEngine.tasks
  /\ backgroundEngine.tasks[i].kind = "preload"
  /\ loaded => backgroundEngine.tasks[i].url # Undefined
  /\ Commit(SetBackgroundImageSettled(W, i, loaded),
            NoEvent)
  /\ UNCHANGED <<store, listeners, clockManager, pinnedAppsManager, statsTracker>>

\* fetchApiImages settles inside applyApiBackground.  A failure is caught and
\* the color applied.  A response of n URLs is assigned to the apiSettings
\* object the call started with and the cursor reset; if n > 0 the selection
\* and the preload follow, if n = 0 nothing more happens
FetchSettled(w, i, ok, n, r) ==
  LET t == w.bg.tasks[i]
      w1 == [w EXCEPT !.bg.tasks = Without(@, i)]
      old == IF t.live THEN BgSub(w, "apiSettings") ELSE t.obj
      new == Put(Put(old, "images", SubSeq(ApiUrls, 1, n)), "currentIndex", 0)
      w2 == IF t.live THEN Retrack(SetBgSub(w1, "apiSettings", new), "apiSettings")
            ELSE w1
      url == IF IsRandom(new) THEN new.images[RandomIndex(r, n) + 1]
             ELSE ImageAtCursor(new)
  IN IF ~ok THEN Ended(ApplyColorBackground(w1), "api", "fetchfail", "")
     ELSE IF n = 0 THEN Ended(w2, "api", "fetchempty", "")
     ELSE IF t.live THEN SelectAndPreload(w2, "apiSettings", "api", r)
     ELSE [w2 EXCEPT !.bg.tasks =
             Append(@, [kind |-> "preload", mode |-> "api", url |-> url,
                        live |-> TRUE, obj |-> <<>>])]

BackgroundEngine_fetchApiImages(i, ok, n, r) ==
  /\ i \in DOMAIN backgroundEngine.tasks
  /\ backgroundEngine.tasks[i].kind = "fetch"
  /\ Commit(FetchSettled(W, i, ok, n, r), NoEvent)
  /\ UNCHANGED <<store, listeners, clockManager, pinnedAppsManager, statsTracker>>

\* NewTabApp.handleVisibilityChange when the tab becomes visible: tracking
\* resumes, and
\* handleBackgroundCycle
NewTabApp_handleVisibilityChange(r) ==
  /\ backgroundEngine.pc = "ready" /\ Settled
  /\ Commit(HandleBackgroundCycle(W, r), NoEvent)
  /\ statsTracker' = [statsTracker EXCEPT
                        !.isActive = TRUE,
                        !.currentSession.startTime = statsTracker.now]
  /\ UNCHANGED <<store, listeners, clockManager, pinnedAppsManager>>

\* the clock's interval timer fires at time t: updateClock, updateDate
ClockManager_tick(t) ==
  /\ clockManager.timers # {}
  /\ clockManager' = UpdateDate(UpdateClock([clockManager EXCEPT !.now = t]))
  /\ last' = NoEvent
  /\ UNCHANGED <<store, pending, listeners, settingsManager, pinnedAppsManager,
                 backgroundEngine, statsTracker, seq>>

\* window.clockManager.destroy()
ClockManager_destroy ==
  /\ clockManager' = ClockDestroy(clockManager)
  /\ last' = NoEvent
  /\ UNCHANGED <<store, pending, listeners, settingsManager, pinnedAppsManager,
                 backgroundEngine, statsTracker, seq>>

\* a new tab is opened once the storage is quiet: every module is constructed
\* again, chrome.storage.sync is what it was
NewTab ==
  /\ pending = <<>>
  /\ \/ settingsManager # NewSettingsManager
     \/ clockManager # NewClockManager
     \/ pinnedAppsManager # NewPinnedAppsManager
     \/ backgroundEngine # NewBackgroundEngine
     \/ statsTracker # NewStatsTrackerAt(statsTracker.now)
  /\ listeners' = {}
  /\ settingsManager' = NewSettingsManager
  /\ clockManager' = NewClockManager
  /\ pinnedAppsManager' = NewPinnedAppsManager
  /\ backgroundEngine' = NewBackgroundEngine
  /\ statsTracker' = NewStatsTrackerAt(statsTracker.now)
  /\ seq' = NoRuns
  /\ last' = NoEvent
  /\ UNCHANGED <<store, pending>>

\* ------------------------------------------------- the start-up loads
\* a stored section: with every field the settings panel writes, or with
\* only some of them (an older version's document, an imported file)
FullSection ==
  [clock |-> [format |-> "24", showSeconds |-> FALSE, showDate |-> FALSE,
              hidden |-> TRUE],
   apps |-> [showNames |-> FALSE, padding |-> 20, transparency |-> 50,
             gridColumns |-> 8, gridRows |-> 3],
   background |->
     [type |-> "color",
      uploadSettings |-> [images |-> <<"img1">>, cycle |-> "newtab",
                          order |-> "sequential"],
      colorSettings |-> [color |-> "#ffffff"],
      gradientSettings |-> [type |-> "radial", color1 |-> "#000000",
                            color2 |-> "#ffffff"],
      apiSettings |-> [source |-> "pexels", apiKey |-> "key",
                       query |-> "sea", cycle |-> "newtab"]],
   stats |-> [enabled |-> FALSE, showUsageTime |-> FALSE,
              showTabsOpened |-> FALSE, showDaysUsed |-> FALSE,
              showTrackersBlocked |-> FALSE]]

PartialSection ==
  [clock |-> [format |-> "24"],
   apps |-> [padding |-> 20],
   background |->
     [type |-> "upload",
      uploadSettings |-> [images |-> <<"img1", "img2">>, cycle |-> "newtab"]],
   stats |-> [enabled |-> FALSE]]

\* per section: 0 absent, 1 full, 2 partial
StoredDoc(v) ==
  [s \in {x \in Sections : v[x] # 0} |->
     IF v[s] = 1 THEN FullSection[s] ELSE PartialSection[s]]

StoredDocs == {StoredDoc(v) : v \in [Sections -> 0..2]}

\* the documents a user may pick: every section there or not, sections with
\* some of their fields only, a document with a key the extension never wrote
ImportDocs ==
  {StoredDoc(v) : v \in [Sections -> 0..1]}
  \cup {StoredDoc([x \in Sections |-> 2]),
        Put(StoredDoc([x \in Sections |-> 2]), "theme", "dark"),
        Put(StoredDoc([x \in Sections |-> IF x = "apps" THEN 0 ELSE 2]),
            "theme", "dark")}

\* the modules finish their start-up
Startup ==
  \/ \E ok \in BOOLEAN : SettingsManager_init(ok)
  \/ \E ok \in BOOLEAN : ClockManager_init(ok)
  \/ \E ok \in BOOLEAN : PinnedAppsManager_init(ok)
  \/ \E ok \in BOOLEAN, r1, r2 \in Randoms : BackgroundEngine_init(ok, r1, r2)
  \/ \E ok \in BOOLEAN : StatsTracker_init(ok)

\* the settings panel and what follows a save
Settings ==
  \/ \E f \in FormInputs : SettingsManager_saveCurrentSettings(f)
  \/ SettingsManager_resetToDefaults
  \/ \E doc \in ImportDocs : SettingsManager_importSettings(doc)
  \/ \E ok \in BOOLEAN : SettingsManager_saveSettings(ok)
  \/ \E ok \in BOOLEAN, r \in Randoms : BackgroundEngine_updateSettings(ok, r)
  \/ \E ok \in BOOLEAN : StorageWritten(ok)

\* seconds between two events: a short while, and longer than the idle
\* threshold
Gaps == {5, 40}

\* the pinned apps: the modal, the drags
Apps ==
  \/ PinnedAppsManager_loadDefaultApps
  \/ \E written, ok \in BOOLEAN : PinnedAppsManager_loadApps(written, ok)
  \/ PinnedAppsManager_addButton
  \/ \E index \in 0..(MaxApps - 1) : PinnedAppsManager_openEditModal(index)
  \/ PinnedAppsManager_closeEditModal
  \/ NewTabApp_closeAllModals
  \/ \E name, url \in {<<>>, <<" ", "Docs", " ">>, <<"a", ":", "b">>} :
       PinnedAppsManager_saveApp([name |-> name, url |-> url])
  \/ PinnedAppsManager_deleteApp
  \/ \E index \in 0..(MaxApps - 1) : PinnedAppsManager_dragstart(index)
  \/ \E target \in 0..(MaxApps - 1), before \in BOOLEAN :
       PinnedAppsManager_dragover(target, before)
  \/ PinnedAppsManager_drop
  \/ PinnedAppsManager_dragend

\* the usage statistics: time passing, input, focus, tabs
Stats ==
  \/ \E k \in Gaps, ok \in BOOLEAN : StatsTracker_interval(k, ok)
  \/ StatsTracker_recordActivity
  \/ StatsTracker_focus
  \/ StatsTracker_blur
  \/ StatsTracker_beforeunload
  \/ StatsTracker_incrementTabCount
  \/ NewTabApp_handleVisibilityHidden

\* the background: uploads, removals, selections, preloads and fetches
Background ==
  \/ \E index \in 0..(MaxPool - 1) : SettingsManager_removeUploadedImage(index)
  \/ \E isImage \in BOOLEAN, image \in Images, r \in Randoms :
       NewTabApp_handleBackgroundImageUpload(isImage, image, r)
  \/ \E ok \in BOOLEAN, r \in Randoms : BackgroundEngine_addUploadedImage(ok, r)
  \/ \E index \in 0..(MaxPool - 1) : BackgroundEngine_removeUploadedImage(index)
  \/ \E i \in 1..MaxTasks, loaded \in BOOLEAN :
       BackgroundEngine_setBackgroundImage(i, loaded)
  \/ \E i \in 1..MaxTasks, ok \in BOOLEAN, n \in 0..MaxFetch, r \in Randoms :
       BackgroundEngine_fetchApiImages(i, ok, n, r)
  \/ \E r \in Randoms : NewTabApp_handleVisibilityChange(r)

Next ==
  \/ Startup \/ Settings \/ Background \/ Apps \/ Stats \/ NewTab
  \/ \E t \in Times : ClockManager_tick(t)

Spec == Init /\ [][Next]_vars

\* the page opened on an empty storage: start-up, the settings panel and the
\* change notifications.  No image is uploaded or fetched here, the pools stay
\* empty and Math.random() is never called.
InitSync == store = <<>> /\ Constructed

NextSync ==
  \/ \E ok \in BOOLEAN : SettingsManager_init(ok)
  \/ \E ok \in BOOLEAN : ClockManager_init(ok)
  \/ \E ok \in BOOLEAN : PinnedAppsManager_init(ok)
  \/ \E ok \in BOOLEAN : BackgroundEngine_init(ok, 0, 0)
  \/ \E ok \in BOOLEAN : StatsTracker_init(ok)
  \/ \E f \in SyncForms : SettingsManager_saveCurrentSettings(f)
  \/ \E ok \in BOOLEAN : SettingsManager_saveSettings(ok)
  \/ \E ok \in BOOLEAN : BackgroundEngine_updateSettings(ok, 0)
  \/ \E ok \in BOOLEAN : StorageWritten(ok)
  \/ NewTab

SpecSync == InitSync /\ [][NextSync]_vars

\* the image pools under the settings panel and BackgroundEngine together,
\* on an empty storage, a gesture at a time
PoolForms == {ColorForm}

NextPool ==
  \/ \E ok \in BOOLEAN : SettingsManager_init(ok)
  \/ \E ok \in BOOLEAN, r1, r2 \in Randoms : BackgroundEngine_init(ok, r1, r2)
  \/ \E f \in PoolForms : SettingsManager_saveWhenSettled(f)
  \/ \E ok \in BOOLEAN : SettingsManager_saveSettings(ok)
  \/ \E ok \in BOOLEAN, r \in Randoms : BackgroundEngine_updateSettings(ok, r)
  \/ \E ok \in BOOLEAN : StorageWritten(ok)
  \/ \E index \in 0..(MaxPool - 1) : SettingsManager_removeUploadedImage(index)
  \/ \E isImage \in BOOLEAN, image \in Images, r \in Randoms :
       NewTabApp_handleBackgroundImageUpload(isImage, image, r)
  \/ \E ok \in BOOLEAN, r \in Randoms : BackgroundEngine_addUploadedImage(ok, r)
  \/ \E index \in 0..(MaxPool - 1) : BackgroundEngine_removeUploadedImage(index)
  \/ \E i \in 1..MaxTasks, loaded \in BOOLEAN :
       BackgroundEngine_setBackgroundImage(i, loaded)
  \/ \E r \in Randoms : NewTabApp_handleVisibilityChange(r)

SpecPool == InitSync /\ [][NextPool]_vars

\* BackgroundEngine alone, on any initial storage, with no settings panel
NextSelect ==
  \/ \E ok \in BOOLEAN, r1, r2 \in Randoms : BackgroundEngine_init(ok, r1, r2)
  \/ \E isImage \in BOOLEAN, image \in Images, r \in Randoms :
       NewTabApp_handleBackgroundImageUpload(isImage, image, r)
  \/ \E ok \in BOOLEAN, r \in Randoms : BackgroundEngine_addUploadedImage(ok, r)
  \/ \E index \in 0..(MaxPool - 1) : BackgroundEngine_removeUploadedImage(index)
  \/ \E i \in 1..MaxTasks, loaded \in BOOLEAN :
       BackgroundEngine_setBackgroundImage(i, loaded)
  \/ \E i \in 1..MaxTasks, ok \in BOOLEAN, n \in 0..MaxFetch, r \in Randoms :
       BackgroundEngine_fetchApiImages(i, ok, n, r)
  \/ \E r \in Randoms : NewTabApp_handleVisibilityChange(r)
  \/ \E ok \in BOOLEAN : StorageWritten(ok)

SpecSelect == Init /\ [][NextSelect]_vars

\* a stored backgroundSettings whose uploadSettings has neither order nor
\* currentIndex
PartialBackgroundSettings ==
  [uploadSettings |-> [images |-> <<"img1", "img2">>, cycle |-> "newtab"]]

LoadStores ==
  {[newTabSettings |-> d] : d \in StoredDocs}
  \cup {[newTabSettings |-> d, backgroundSettings |-> PartialBackgroundSettings] :
          d \in StoredDocs}

InitLoad == store \in LoadStores /\ Constructed

NextLoad ==
  \/ \E ok \in BOOLEAN : SettingsManager_init(ok)
  \/ \E ok \in BOOLEAN, r1, r2 \in Randoms : BackgroundEngine_init(ok, r1, r2)

SpecLoad == InitLoad /\ [][NextLoad]_vars

\* ------------------------------------------------------------ getSettings
\* getSettings() of SettingsManager, ClockManager, PinnedAppsManager and
\* BackgroundEngine: return { ...this.settings }.  The spread copies the
\* properties of this.settings into a new object; a property that holds an
\* object is copied as the reference, so the new object and this.settings
\* hold the same sub-object.  own is the returned object's properties, shared
\* those of them that refer to an object of the module (objects names the
\* properties of this module's settings that hold objects).
GetSettings(settings, objects) ==
  [own |-> settings, shared |-> DOMAIN settings \cap objects]

\* the module's settings after the caller assigned to the object it got:
\* got[k] = value for the path <<k>>, got[k][f] = value for <<k, f>>
Assigned(got, settings, path, value) ==
  IF Len(path) = 2 /\ path[1] \in got.shared
  THEN Put(settings, path[1], Put(settings[path[1]], path[2], value))
  ELSE settings

\* what a caller assigns, a path and a value: a property of the returned
\* object, or a property of one of its sub-objects
SettingsAssignments == {<<<<"clock">>, "24">>, <<<<"clock", "format">>, "24">>}
BackgroundAssignments ==
  {<<<<"backgroundType">>, "color">>, <<<<"colorSettings", "color">>, "#000000">>}
ClockAssignments == {<<<<"showSeconds">>, TRUE>>}
AppsAssignments == {<<<<"showAppNames">>, FALSE>>}

Got(module, path, before) ==
  [Ev("getSettings", TRUE) EXCEPT
     !.stored = [module |-> module, path |-> path], !.before = before]

\* window.settingsManager.getSettings() and an assignment to what it returned
SettingsManager_getSettings(path, value) ==
  LET got == GetSettings(settingsManager.settings, Sections) IN
  /\ Len(path) = 2 => path[1] \in got.shared
  /\ settingsManager' =
       [settingsManager EXCEPT !.settings = Assigned(got, @, path, value)]
  /\ last' = Got("settings", path, got.own)
  /\ UNCHANGED <<store, pending, listeners, clockManager, pinnedAppsManager,
                 backgroundEngine, statsTracker, seq>>

\* window.clockManager.getSettings(): its settings hold no object
ClockManager_getSettings(path, value) ==
  LET got == GetSettings(clockManager.settings, {}) IN
  /\ Len(path) = 2 => path[1] \in got.shared
  /\ clockManager' =
       [clockManager EXCEPT !.settings = Assigned(got, @, path, value)]
  /\ last' = Got("clock", path, got.own)
  /\ UNCHANGED <<store, pending, listeners, settingsManager, pinnedAppsManager,
                 backgroundEngine, statsTracker, seq>>

\* window.pinnedAppsManager.getSettings(): its settings hold no object
PinnedAppsManager_getSettings(path, value) ==
  LET got == GetSettings(pinnedAppsManager.settings, {}) IN
  /\ Len(path) = 2 => path[1] \in got.shared
  /\ pinnedAppsManager' =
       [pinnedAppsManager EXCEPT !.settings = Assigned(got, @, path, value)]
  /\ last' = Got("apps", path, got.own)
  /\ UNCHANGED <<store, pending, listeners, settingsManager, clockManager,
                 backgroundEngine, statsTracker, seq>>

\* window.backgroundEngine.getSettings(); a sub-object it shares with
\* SettingsManager is written there
BackgroundEngine_getSettings(path, value) ==
  LET got == GetSettings(BgSettings(W), SubObjects)
      after == Assigned(got, got.own, path, value)
      w == IF after = got.own THEN W
           ELSE SetBgSub(W, path[1], after[path[1]])
  IN /\ Len(path) = 2 => path[1] \in got.shared
     /\ Commit(IF path[1] \in Pools THEN RetrackIfChanged(W, w, path[1]) ELSE w,
               Got("background", path, got.own))
     /\ UNCHANGED <<store, listeners, clockManager, pinnedAppsManager,
                    statsTracker>>

\* the stored documents loaded and the objects getSettings() returns
\* assigned to, before or after a module's load
NextGet ==
  \/ \E ok \in BOOLEAN : SettingsManager_init(ok)
  \/ \E ok \in BOOLEAN, r1, r2 \in Randoms : BackgroundEngine_init(ok, r1, r2)
  \/ \E ok \in BOOLEAN : ClockManager_init(ok)
  \/ \E a \in SettingsAssignments : SettingsManager_getSettings(a[1], a[2])
  \/ \E a \in ClockAssignments : ClockManager_getSettings(a[1], a[2])
  \/ \E a \in AppsAssignments : PinnedAppsManager_getSettings(a[1], a[2])
  \/ \E a \in BackgroundAssignments : BackgroundEngine_getSettings(a[1], a[2])

SpecGet == InitLoad /\ [][NextGet]_vars


\* ------------------------------------------------------------ the timers
\* the clock and the statistics under the settings panel, on an empty
\* storage: the Save button pressed again before the write of the press
\* before has completed, and the clock destroyed at any moment
NextTimers ==
  \/ \E ok \in BOOLEAN : SettingsManager_init(ok)
  \/ \E ok \in BOOLEAN : ClockManager_init(ok)
  \/ \E ok \in BOOLEAN : StatsTracker_init(ok)
  \/ \E f \in SyncForms : SettingsManager_saveCurrentSettings(f)
  \/ \E ok \in BOOLEAN : SettingsManager_saveSettings(ok)
  \/ \E ok \in BOOLEAN : StorageWritten(ok)
  \/ ClockManager_destroy

SpecTimers == InitSync /\ [][NextTimers]_vars

\* the statistics switched off and on from the settings panel while the
\* seconds pass, a gesture at a time
NextSwitch ==
  \/ \E ok \in BOOLEAN : SettingsManager_init(ok)
  \/ \E ok \in BOOLEAN : StatsTracker_init(ok)
  \/ \E f \in SyncForms : SettingsManager_saveWhenSettled(f)
  \/ \E ok \in BOOLEAN : SettingsManager_saveSettings(ok)
  \/ \E ok \in BOOLEAN : StatsTracker_interval(5, ok)
  \/ \E ok \in BOOLEAN : StorageWritten(ok)

SpecSwitch == InitSync /\ [][NextSwitch]_vars

\* Save pressed again while the write of the press before is in flight, on
\* an empty storage whose writes all succeed
NextWrites ==
  \/ \E ok \in BOOLEAN : SettingsManager_init(ok)
  \/ \E ok \in BOOLEAN : ClockManager_init(ok)
  \/ \E f \in FormInputs : SettingsManager_saveCurrentSettings(f)
  \/ SettingsManager_saveSettings(TRUE)
  \/ StorageWritten(TRUE)

SpecWrites == InitSync /\ [][NextWrites]_vars

\* an upload pool of two images stored by an earlier page
OverlapStores ==
  {[backgroundSettings |->
      [backgroundType |-> "upload",
       uploadSettings |-> [images |-> <<"img1", "img2">>, cycle |-> cycle,
                           order |-> order, currentIndex |-> currentIndex]]] :
     cycle \in {"newtab", "refresh"}, order \in {"sequential", "random"},
     currentIndex \in 0..1}

InitOverlap == store \in OverlapStores /\ Constructed

\* BackgroundEngine alone, every preload loading its image: the start-up
\* apply and the new-tab cycle of init overlap, the tab is hidden and shown
\* again
NextOverlap ==
  \/ \E ok \in BOOLEAN, r1, r2 \in Randoms : BackgroundEngine_init(ok, r1, r2)
  \/ \E i \in 1..MaxTasks : BackgroundEngine_setBackgroundImage(i, TRUE)
  \/ \E r \in Randoms : NewTabApp_handleVisibilityChange(r)
  \/ \E ok \in BOOLEAN : StorageWritten(ok)
  \/ NewTab

SpecOverlap == InitOverlap /\ [][NextOverlap]_vars

\* ============================================================ properties
\* module m has added its listener
Subscribed(m) == \E e \in listeners : e[2] = m

\* every field of payload is in settings with the payload's value
Merged(payload, settings) ==
  \A f \in DOMAIN payload : Has(settings, f) /\ settings[f] = payload[f]

\* the last step was saveSettings of SettingsManager ending, the write done
SaveSucceeded == last.op = "saveSettings" /\ last.ok

\* the last step was saveSettings of SettingsManager ending in its catch
SaveFailed == last.op = "saveSettings" /\ ~last.ok

\* C1: after a successful Settings save, each of the four feature modules
\* (clock, apps, background, stats) that has subscribed has its change
\* handler invoked with its own section of the saved document, and the clock
\* and the apps hold that payload in the settings they apply.
C1_EverySubscribedModuleNotified ==
  SaveSucceeded =>
    /\ \A m \in Modules :
         Subscribed(m) =>
           /\ m \in DOMAIN last.delivered
           /\ last.delivered[m] = settingsManager.settings[m]
    /\ Subscribed("clock") =>
         Merged(settingsManager.settings.clock, clockManager.settings)
    /\ Subscribed("apps") =>
         Merged(settingsManager.settings.apps, pinnedAppsManager.applied)

\* C2: after a successful Settings save and the handling of its
\* notifications, the clock shows 24-hour time iff the saved format is "24"
\* and is hidden iff the saved hidden flag is true, and the applyBackground
\* that follows the background notification dispatches on the saved type.
C2_ModulesReflectSavedSection ==
  /\ (SaveSucceeded /\ Subscribed("clock")) =>
       /\ clockManager.hidden <=> settingsManager.settings.clock.hidden
       /\ ~clockManager.hidden =>
            (clockManager.text.h24 <=>
               settingsManager.settings.clock.format = "24")
  /\ last.op = "updateSettings" =>
       \A i \in DOMAIN last.applies :
         /\ Has(backgroundEngine.settings, "type")
         /\ last.applies[i].mode = backgroundEngine.settings.type

\* the sections in the order the notifications are to be published
SectionOrder == <<"clock", "apps", "background", "stats">>

\* C3: saveSettings publishes iff the storage write succeeded: after a
\* successful write exactly one notification per section, in the order
\* clock, apps, background, stats, each carrying its section of the
\* document in memory and each of its own type, whether or not the section
\* changed;
\* after a failed write none.
C3_PublishesIffWritten ==
  /\ SaveSucceeded =>
       /\ Len(last.published) = Len(SectionOrder)
       /\ \A i \in DOMAIN SectionOrder :
            last.published[i].detail = settingsManager.settings[SectionOrder[i]]
       /\ \A i, j \in DOMAIN last.published :
            i # j => last.published[i].type # last.published[j].type
  /\ SaveFailed => last.published = <<>>
  /\ (last.op # "saveSettings") => last.published = <<>>

\* C3's case: a save that changed no section (the form as loaded, saved over
\* the defaults) has completed and published the four notifications
C3_UnchangedSavePublished ==
  /\ SaveSucceeded
  /\ last.stored = SerializeSettings(DefaultSettings)
  /\ settingsManager.settings = DefaultSettings
  /\ Len(last.published) = 4

\* the newTabSettings document a start-up read returned, if it returned one
ReadDocument == last.stored.newTabSettings

ReadADocument(op) == last.op = op /\ Has(last.stored, "newTabSettings")

\* C4: a configuration saved through Settings is observed by a feature
\* module that starts afterwards: when the module's start-up load has read a
\* storage that holds the saved document, the module's settings hold the
\* saved values of its section.
C4_LateModuleLoadsSavedSection ==
  /\ (ReadADocument("ClockManager.init") /\ Has(ReadDocument, "clock")) =>
       Merged(ReadDocument.clock, clockManager.settings)
  /\ (ReadADocument("PinnedAppsManager.init") /\ Has(ReadDocument, "apps")) =>
       Merged(ReadDocument.apps, pinnedAppsManager.settings)
  /\ (ReadADocument("BackgroundEngine.init")
        /\ Has(ReadDocument, "background")) =>
       Merged(ReadDocument.background, BgSettings(W))

\* the sections a stored document lacks
MissingSections(doc) == Sections \ DOMAIN doc

\* C5: SettingsManager.loadSettings: for every stored document that lacks
\* one or more of the sections clock, apps, background, stats, the document
\* in memory after the load has every missing section equal to its hardcoded
\* default and every present section equal to the stored section.
C5_MissingSectionsDefaulted ==
  (ReadADocument("SettingsManager.init")
     /\ MissingSections(ReadDocument) # {}) =>
    \A s \in Sections :
      /\ Has(settingsManager.settings, s)
      /\ settingsManager.settings[s] =
           IF Has(ReadDocument, s) THEN ReadDocument[s] ELSE DefaultSettings[s]

\* C5's case: a document with a section missing and a section present has
\* been loaded
C5_PartialDocumentLoaded ==
  /\ ReadADocument("SettingsManager.init")
  /\ ~Has(ReadDocument, "clock")
  /\ Has(ReadDocument, "background")
  /\ settingsManager.pc = "ready"

\* the stored fields of subsection sub kept, the others at their default
FieldFallback(loaded, stored, defaults) ==
  \A f \in DOMAIN stored \cup DOMAIN defaults :
    /\ Has(loaded, f)
    /\ loaded[f] = IF Has(stored, f) THEN stored[f] ELSE defaults[f]

\* C6: when a stored section has a composite subsection (such as
\* background.uploadSettings) that lacks a recognised field (such as order or
\* currentIndex), the load yields that field's hardcoded default and keeps
\* the subsection's stored fields; for SettingsManager.loadSettings and for
\* BackgroundEngine.loadSettings.
C6_SubsectionFieldFallback ==
  /\ (ReadADocument("SettingsManager.init")
        /\ Has(ReadDocument, "background")) =>
       \A sub \in SubObjects \cap DOMAIN ReadDocument.background :
         FieldFallback(settingsManager.settings.background[sub],
                       ReadDocument.background[sub],
                       DefaultBackground[sub])
  /\ (last.op = "BackgroundEngine.init"
        /\ Has(last.stored, "backgroundSettings")) =>
       \A sub \in SubObjects \cap DOMAIN last.stored.backgroundSettings :
         FieldFallback(SerializePool(BgSettings(W)[sub]),
                       last.stored.backgroundSettings[sub],
                       BackgroundDefaults[sub])

\* pool k of BackgroundEngine
Pool(k) == BgSub(W, k)

\* C7: sequential selection over a fixed non-empty pool of size N, starting
\* from cursor 0, returns index (k-1) mod N on the k-th call, and
\* currentIndex after the k-th call is k mod N.
C7_SequentialSelectionCycles ==
  \A k \in Pools :
    seq[k].on =>
      LET N == Len(Pool(k).images)
          picks == seq[k].picks
      IN /\ N > 0
         /\ \A i \in DOMAIN picks : picks[i] = (i - 1) % N
         /\ Pool(k).currentIndex = Len(picks) % N

\* C7's case: over a pool of two or more images the selections have gone
\* once round and started again
C7_SelectionWrapped ==
  \E k \in Pools :
    /\ seq[k].on
    /\ Len(Pool(k).images) >= 2
    /\ Len(seq[k].picks) > Len(Pool(k).images)

\* a cursor that is an index of the pool
CursorInRange(p) ==
  /\ Has(p, "currentIndex")
  /\ p.currentIndex >= 0
  /\ p.currentIndex < Len(p.images)

\* C8: in every state reached by uploads, removals (through BackgroundEngine
\* or through the settings panel), selections and Settings saves, each pool
\* with a non-empty image list has an integer cursor with
\* 0 <= currentIndex < length; and when a removal shrinks the pool to or
\* below the old cursor, the cursor is reset to 0.
C8_CursorWithinPool ==
  /\ \A k \in Pools :
       (Has(Pool(k), "images") /\ Len(Pool(k).images) > 0) =>
         CursorInRange(Pool(k))
  /\ (last.op = "BackgroundEngine.removeUploadedImage" /\ last.ok
        /\ last.removed.cursor >= last.removed.length) =>
       Pool("uploadSettings").currentIndex = 0

\* the solid color is what shows
ColorShows ==
  /\ backgroundEngine.style.backgroundImage = "none"
  /\ backgroundEngine.style.backgroundColor = Pool("colorSettings").color

\* how an applyBackground ends when its pool is empty or its mode lacks the key
EmptyOrMisconfigured == {"empty", "nokey", "fetchfail", "fetchempty"}

\* C9: whenever applyBackground runs in upload or api mode and the mode's
\* pool is empty (after any fetch attempt) or the mode has no API key, the
\* call completes without throwing and the visible background is the solid
\* color.
C9_EmptyPoolFallsBackToColor ==
  \A i \in DOMAIN last.applies :
    last.applies[i].why \in EmptyOrMisconfigured => ColorShows

\* C10: when the preload of the selected image fails, in upload mode as in
\* api mode, the failed image is not the visible background and the caller
\* ends with the solid color applied.
C10_FailedPreloadFallsBackToColor ==
  \A i \in DOMAIN last.applies :
    last.applies[i].why = "preloadfail" =>
      /\ backgroundEngine.style.backgroundImage # last.applies[i].url
      /\ ColorShows

\* C11: random selection over a non-empty pool of size N picks an index in
\* [0, N), every index in [0, N) is a possible pick (for each there is a
\* value of Math.random() that selects it), and the selection leaves
\* currentIndex unchanged.
C11_RandomSelectionInRange ==
  /\ \A i \in DOMAIN last.picks :
       LET pick == last.picks[i]
       IN pick.random =>
            /\ pick.length > 0
            /\ pick.index >= 0 /\ pick.index < pick.length
            /\ pick.after = pick.before
  /\ \A N \in 1..MaxPool, j \in 0..(MaxPool - 1) :
       j < N => \E r \in Randoms : RandomIndex(r, N) = j

\* C11's case: a random selection over a full pool has picked its last index
C11_LastIndexPicked ==
  \E i \in DOMAIN last.picks :
    /\ last.picks[i].random
    /\ last.picks[i].length = MaxPool
    /\ last.picks[i].index = MaxPool - 1

\* ------------------------------------------------------------- the clock
\* stored clockSettings: what an earlier session or an imported file left
ClockStores ==
  {[clockSettings |-> [use24HourFormat |-> f, showSeconds |-> x]] :
     f \in BOOLEAN, x \in BOOLEAN}

InitClock ==
  /\ store \in ClockStores
  /\ pending = <<>>
  /\ listeners = {}
  /\ settingsManager = NewSettingsManager
  /\ \E t \in Times : clockManager = [NewClockManager EXCEPT !.now = t]
  /\ pinnedAppsManager = NewPinnedAppsManager
  /\ backgroundEngine = NewBackgroundEngine
  /\ statsTracker = NewStatsTracker
  /\ seq = NoRuns
  /\ last = NoEvent

NextClock ==
  \/ \E ok \in BOOLEAN : ClockManager_init(ok)
  \/ \E t \in Times : ClockManager_tick(t)

SpecClock == InitClock /\ [][NextClock]_vars

\* str ends with suffix
EndsWith(str, suffix) ==
  /\ Len(str) >= Len(suffix)
  /\ SubSeq(str, Len(str) - Len(suffix) + 1, Len(str)) = suffix

\* str holds part from position i on
HoldsAt(str, i, part) ==
  /\ Len(str) >= i + Len(part) - 1
  /\ SubSeq(str, i, i + Len(part) - 1) = part

\* the hour a 12-hour clock shows
TwelveHour(h) == IF h = 0 \/ h = 12 THEN 12 ELSE IF h > 12 THEN h - 12 ELSE h

\* str is the time now as the clock is to show it
WellFormatted(str, now, use24, showSeconds) ==
  /\ HoldsAt(str, 1, PadZero(IF use24 THEN now.h ELSE TwelveHour(now.h)))
  /\ HoldsAt(str, 3, <<":">> \o PadZero(now.m))
  /\ showSeconds =>
       \E i \in 6..Len(str) : HoldsAt(str, i, <<":">> \o PadZero(now.s))
  /\ ~use24 => EndsWith(str, IF now.h < 12 THEN <<"A", "M">> ELSE <<"P", "M">>)
  /\ use24 => Len(str) = (IF showSeconds THEN 8 ELSE 5)

\* C12: clock formatting, for every hour 0..23, the minutes and seconds
\* sampled, and both values of showSeconds: in 12-hour mode the hour shown is
\* 12 for hours 0 and 12 and hour-12 for 13..23, zero-padded, and the string
\* ends with AM for hours below 12 and with PM otherwise; in 24-hour mode the
\* hour is the zero-padded raw hour with no suffix; minutes and seconds are
\* zero-padded.  For the clock's display and for utils.formatTime.
C12_ClockFormatting ==
  /\ clockManager.text.rendered =>
       WellFormatted(clockManager.display, clockManager.now,
                     clockManager.settings.use24HourFormat,
                     clockManager.settings.showSeconds)
  /\ \A f \in BOOLEAN, x \in BOOLEAN :
       WellFormatted(FormatTime(clockManager.now.h, clockManager.now.m,
                                clockManager.now.s, f, x),
                     clockManager.now, f, x)

\* ----------------------------------------------------------- the import
NextImport ==
  \/ \E ok \in BOOLEAN : SettingsManager_init(ok)
  \/ \E doc \in ImportDocs : SettingsManager_importSettings(doc)
  \/ \E ok \in BOOLEAN : SettingsManager_saveSettings(ok)

SpecImport == InitSync /\ [][NextImport]_vars

\* C16: importing a settings document that lacks one of the four required
\* top-level keys changes nothing: the in-memory settings and the persisted
\* document stay as they were, no write is issued and so no change
\* notification is published.
C16_InvalidImportChangesNothing ==
  (last.op = "importSettings" /\ \E k \in Sections : ~Has(last.stored, k))
  => /\ settingsManager.settings = last.before.settings
     /\ store = last.before.store
     /\ pending = last.before.pending
     /\ last.published = <<>>

C16_InvalidImportRejected ==
  /\ last.op = "importSettings"
  /\ ~Has(last.stored, "apps") /\ Has(last.stored, "clock")
  /\ last.stored.clock # settingsManager.settings.clock
  /\ Has(store, "newTabSettings")

\* ------------------------------------------------- the usage statistics
\* a page opened three seconds before midnight
Opened == Midnight - 3

\* the session log an earlier page may have left: an entry that leaves the
\* window while the page is open, one that had left it before, a fresh one
StoredSessions ==
  LET at(t) == [date |-> ToISOString(t), duration |-> 60, tabsOpened |-> 1]
  IN { <<>>,
       <<at(Midnight - RetentionDays * DaySeconds + 20)>>,
       <<at(Midnight - (RetentionDays + 1) * DaySeconds),
         at(Midnight - DaySeconds)>> }

\* what chrome.storage.sync may hold of the statistics: nothing, or what
\* saveStats wrote earlier the same day or the day before
StatsStores ==
  {<<>>} \cup
  {[statsData |->
      [totalUsageTime |-> 100, tabsOpenedToday |-> 1, totalTabsOpened |-> 1,
       firstUseDate |-> ToISOString(Midnight - 35 * DaySeconds),
       lastActiveDate |-> ToISOString(active), trackersBlocked |-> 0,
       sessions |-> sessions]] :
     active \in {Midnight - 100, Midnight - DaySeconds - 100},
     sessions \in StoredSessions}

InitStats ==
  /\ store \in StatsStores
  /\ pending = <<>>
  /\ listeners = {}
  /\ settingsManager = NewSettingsManager
  /\ clockManager = NewClockManager
  /\ pinnedAppsManager = NewPinnedAppsManager
  /\ backgroundEngine = NewBackgroundEngine
  /\ statsTracker = NewStatsTrackerAt(Opened)
  /\ seq = NoRuns
  /\ last = NoEvent

\* the page opens and time passes, the storage writes completing
Passing ==
  \/ \E ok \in BOOLEAN : StatsTracker_init(ok)
  \/ \E k \in Gaps, ok \in BOOLEAN : StatsTracker_interval(k, ok)
  \/ \E ok \in BOOLEAN : StorageWritten(ok)

\* tabs are created while the page is open
NextTabs == Passing \/ StatsTracker_incrementTabCount

SpecTabs == InitStats /\ [][NextTabs]_vars

\* input comes and goes, the window and the tab are left and come back
NextUsage ==
  \/ Passing
  \/ StatsTracker_recordActivity
  \/ StatsTracker_focus
  \/ NewTabApp_handleVisibilityHidden

SpecUsage == InitStats /\ [][NextUsage]_vars

\* sessions end: the window loses the focus, the page unloads
NextSessions ==
  \/ Passing
  \/ StatsTracker_blur
  \/ StatsTracker_beforeunload

SpecSessions == InitStats /\ [][NextSessions]_vars

\* C13: on every tab-created event the daily tab counter becomes 1 when the
\* stored last-active date string differs from the current date string, and
\* its prior value plus 1 otherwise, also when the date changed while the
\* page stayed open.
\* (With no last-active date stored at all, either outcome is accepted.)
C13_DailyCounterOnTabCreated ==
  last.op = "incrementTabCount" =>
    LET prior == last.before.stats
        counter == statsTracker.stats.tabsOpenedToday
    IN IF prior.lastActiveDate = Null
       THEN counter \in {1, prior.tabsOpenedToday + 1}
       ELSE counter = IF NewDay(prior, last.before.now) THEN 1
                      ELSE prior.tabsOpenedToday + 1

\* C14: the running usage total grows only by time that elapsed while the
\* tracker was active and the latest input was less than 30 s old; the
\* time of an idle stretch is never added once input resumes.
C14_OnlyActiveTimeCounted ==
  statsTracker.stats.totalUsageTime <= statsTracker.earned

\* the log with the session a saveCurrentSession step appended
Appended ==
  Append(last.before.stats.sessions,
         [date |-> ToISOString(last.before.now),
          duration |-> last.before.currentSession.activeTime,
          tabsOpened |-> last.before.stats.tabsOpenedToday])

\* the seconds between a session's date and now
Age(session, now) == now - DateOf(session.date)

\* C15: after any append to the usage session log, the log holds exactly
\* the entries, of the previous ones and the new one, whose date is within
\* 30 days of now, in their order; the older ones are gone.
C15_SessionLogWindow ==
  (last.op = "saveCurrentSession" /\ last.before.currentSession.activeTime > 0)
  => LET now == last.before.now
         window == RetentionDays * DaySeconds
     IN statsTracker.stats.sessions \in
          { SelectSeq(Appended, LAMBDA e : Age(e, now) < window),
            SelectSeq(Appended, LAMBDA e : Age(e, now) <= window) }

C15_OldSessionDiscarded ==
  /\ last.op = "saveCurrentSession"
  /\ last.before.currentSession.activeTime > 0
  /\ Len(statsTracker.stats.sessions) < Len(Appended)
  /\ Len(last.before.stats.sessions) > 0

\* ------------------------------------------------------- the pinned apps
\* what the name and URL fields may hold when Save is pressed
FormNames == {<<>>, <<" ">>, <<" ", "Docs", " ">>}
FormUrls == {<<>>, <<"docs.example">>, <<"https", ":", "//docs.example", " ">>}
Forms == [name : FormNames, url : FormUrls]

\* what chrome.storage.sync may hold of the apps: nothing, the list emptied,
\* a list of two
AppsStores ==
  { <<>>, [pinnedApps |-> <<>>],
    [pinnedApps |-> <<DefaultAppList[3], DefaultAppList[1]>>] }

InitApps == store \in AppsStores /\ Constructed

\* the modal: the list is added to, edited and deleted from
Modal ==
  \/ PinnedAppsManager_addButton
  \/ \E index \in 0..(MaxApps - 1) : PinnedAppsManager_openEditModal(index)
  \/ PinnedAppsManager_closeEditModal
  \/ NewTabApp_closeAllModals
  \/ \E form \in Forms : PinnedAppsManager_saveApp(form)
  \/ PinnedAppsManager_deleteApp

\* the list is edited, its writes complete, new tabs open
NextApps ==
  \/ \E ok \in BOOLEAN : PinnedAppsManager_init(ok)
  \/ PinnedAppsManager_loadDefaultApps
  \/ \E written, ok \in BOOLEAN : PinnedAppsManager_loadApps(written, ok)
  \/ Modal
  \/ \E ok \in BOOLEAN : StorageWritten(ok)
  \/ NewTab

SpecApps == InitApps /\ [][NextApps]_vars

\* a stored list of two is edited and reordered by drags
InitDrag == store = [pinnedApps |-> <<DefaultAppList[3], DefaultAppList[1]>>]
            /\ Constructed

NextDrag ==
  \/ \E ok \in BOOLEAN : PinnedAppsManager_init(ok)
  \/ Modal
  \/ \E index \in 0..(MaxApps - 1) : PinnedAppsManager_dragstart(index)
  \/ \E target \in 0..(MaxApps - 1), before \in BOOLEAN :
       PinnedAppsManager_dragover(target, before)
  \/ PinnedAppsManager_drop
  \/ \E ok \in BOOLEAN : StorageWritten(ok)
  \/ NewTab

SpecDrag == InitDrag /\ [][NextDrag]_vars

\* a stored list of three reordered by drags, some of them abandoned: the
\* button released away from every app
InitReorder ==
  /\ \E n \in 2..3 : store = [pinnedApps |-> SubSeq(DefaultAppList, 1, n)]
  /\ Constructed

NextReorder ==
  \/ \E ok \in BOOLEAN : PinnedAppsManager_init(ok)
  \/ \E index \in 0..(MaxApps - 1) : PinnedAppsManager_dragstart(index)
  \/ \E target \in 0..(MaxApps - 1), before \in BOOLEAN :
       PinnedAppsManager_dragover(target, before)
  \/ PinnedAppsManager_drop
  \/ PinnedAppsManager_dragend
  \/ \E ok \in BOOLEAN : StorageWritten(ok)

SpecReorder == InitReorder /\ [][NextReorder]_vars

\* C17: for every pinned-app list, the empty one included, a successful
\* saveApps followed by loadApps yields the same list: the write carries the
\* list as it is, and a load takes the stored list as it is.
C17_SavedAppsLoadBack ==
  /\ \A i \in DOMAIN pending :
       (pending[i].key = "pinnedApps" /\ i = Len(pending))
       => pending[i].value = pinnedAppsManager.apps
  /\ (last.op = "PinnedAppsManager.init" /\ Has(last.stored, "pinnedApps"))
     => pinnedAppsManager.apps = last.stored.pinnedApps

C17_EditedListLoaded ==
  /\ last.op = "PinnedAppsManager.init" /\ Has(last.stored, "pinnedApps")
  /\ \E i \in DOMAIN pinnedAppsManager.apps :
       pinnedAppsManager.apps[i].name = <<"Docs">>

\* the write saveApps issues for the list as it is now
Persisted ==
  Append(last.before.pending,
         [key |-> "pinnedApps", value |-> pinnedAppsManager.apps, cont |-> "none"])

\* C18: an accepted saveApp in add mode appends exactly one item at the end
\* of the list, in edit mode it replaces exactly item i; deleteApp removes
\* exactly item i and keeps the order of the rest; each issues a persist.
C18_EditsTouchOneItem ==
  LET b == last.before
      apps == pinnedAppsManager.apps
      item == [name |-> Trim(last.stored.name), url |-> Trim(last.stored.url),
               icon |-> b.preview]
  IN /\ (last.op = "saveApp" /\ last.ok /\ b.editingIndex = Null)
        => apps = b.apps \o <<item>> /\ pending = Persisted
     /\ (last.op = "saveApp" /\ last.ok /\ b.editingIndex # Null)
        => /\ Len(apps) = Len(b.apps)
           /\ \A j \in 1..Len(apps) :
                apps[j] = IF j = b.editingIndex[1] + 1 THEN item ELSE b.apps[j]
           /\ pending = Persisted
     /\ (last.op = "deleteApp" /\ b.editingIndex # Null)
        => /\ Len(apps) = Len(b.apps) - 1
           /\ \A j \in 1..Len(apps) :
                apps[j] = IF j < b.editingIndex[1] + 1 THEN b.apps[j]
                          ELSE b.apps[j + 1]
           /\ pending = Persisted

C18_MiddleItemEdited ==
  /\ last.op = "saveApp" /\ last.ok
  /\ last.before.editingIndex = <<1>>
  /\ Len(pinnedAppsManager.apps) = 3
  /\ pinnedAppsManager.apps[2] # last.before.apps[2]

\* every app of the list has a name and a URL
Complete(apps) ==
  \A i \in DOMAIN apps : apps[i].name # <<>> /\ apps[i].url # <<>>

\* the text is an absolute URL: a scheme, a colon, and more
Absolute(url) ==
  \E i \in 2..(Len(url) - 1) :
    url[i] = ":" /\ \A j \in 1..(i - 1) : url[j] \notin {" ", ":"}

\* C19: starting from a list whose apps have non-empty names and URLs,
\* after any add, edit, delete or drag-reorder every app has a non-empty
\* name and URL, in memory and persisted; a saveApp with an empty name, an
\* empty URL or a URL that is not absolute is rejected and leaves the list
\* and the persisted value as they were.
C19_AppsKeepNameAndUrl ==
  /\ Complete(pinnedAppsManager.apps)
  /\ Has(store, "pinnedApps") => Complete(store.pinnedApps)
  /\ \A i \in DOMAIN pending :
       pending[i].key = "pinnedApps" => Complete(pending[i].value)
  /\ (/\ last.op = "saveApp"
      /\ \/ Trim(last.stored.name) = <<>>
         \/ Trim(last.stored.url) = <<>>
         \/ ~Absolute(Trim(last.stored.url)))
     => /\ pinnedAppsManager.apps = last.before.apps
        /\ pending = last.before.pending
        /\ store = last.before.store

C19_RelativeUrlRejected ==
  /\ last.op = "saveApp"
  /\ Trim(last.stored.name) # <<>> /\ Trim(last.stored.url) # <<>>
  /\ ~Absolute(Trim(last.stored.url))
  /\ Len(pinnedAppsManager.apps) = 3
  /\ pinnedAppsManager.apps[1] = DefaultAppList[1]

\* the settings of the module whose getSettings() was called
SettingsOf(module) ==
  CASE module = "settings" -> settingsManager.settings
    [] module = "clock" -> clockManager.settings
    [] module = "apps" -> pinnedAppsManager.settings
    [] module = "background" -> BgSettings(W)

\* C20: for every module (Settings, Clock, PinnedApps, Background), an
\* assignment to the object getSettings() returned, to one of its properties
\* or to a property of one of its sub-objects, leaves the module's own
\* settings as they were.
C20_ReturnedSettingsDetached ==
  last.op = "getSettings" => SettingsOf(last.stored.module) = last.before

\* C21: after any sequence of stats settings notifications (enabled true or
\* false, repeated or alternating) at most one usage-tracking timer is
\* active.
C21_OneTrackingTimer == Cardinality(statsTracker.timers) <= 1

\* C22: in every state reachable by clock start-up, clock settings
\* notifications and destroy, at most one clock timer is active, and an
\* active timer has period 1000 ms if showSeconds is true and 60000 ms
\* otherwise.
C22_OneClockTimerOfRightPeriod ==
  /\ Cardinality(clockManager.timers) <= 1
  /\ \A t \in clockManager.timers :
       t.period = IF clockManager.settings.showSeconds = TRUE THEN 1000
                  ELSE 60000

\* a notification changed showSeconds and the timer was replaced
C22_TimerRestarted ==
  /\ last.op = "saveSettings" /\ "clock" \in DOMAIN last.delivered
  /\ clockManager.settings.showSeconds
  /\ \E t \in clockManager.timers : t.period = 1000

\* what a notification may change in the modules that listen: the settings,
\* the active timers, the background with its cursors, the display
Notified ==
  [clock |-> [settings |-> clockManager.settings, timers |-> clockManager.timers],
   apps |-> pinnedAppsManager.settings,
   background |-> [settings |-> BgSettings(W), style |-> backgroundEngine.style],
   stats |-> [timers |-> statsTracker.timers, display |-> statsTracker.display]]

\* C23: for each feature module, handling the same section notification
\* twice in a row leaves the module in the same state as handling it once:
\* same settings, same set of active timers, same background cursor, same
\* values written for storage.
C23_RedundantNotificationIdempotent ==
  [][(/\ last.op = "saveSettings" /\ last.ok
      /\ last'.op = "saveSettings" /\ last'.ok
      /\ DOMAIN last.delivered # {}
      /\ last'.delivered = last.delivered)
     => /\ Notified' = Notified
        /\ \A i \in DOMAIN pending' : \A j \in DOMAIN pending :
             (pending'[i].key = pending[j].key /\ pending[j].cont = "none")
               => pending'[i].value = pending[j].value]_vars

\* the latest stats notification handled had enabled = false: stopTracking
\* has cleared the handle and no startTracking has set one since
TrackingOff == statsTracker.pc = "ready" /\ statsTracker.trackingInterval = 0

\* C29: once a stats notification with enabled = false has been handled,
\* whatever notifications preceded it, no usage-tracking timer is active and
\* the running usage total does not increase until a notification with
\* enabled = true is handled.
C29_DisabledStopsCounting ==
  /\ [](TrackingOff => statsTracker.timers = {})
  /\ [][(TrackingOff /\ TrackingOff')
        => statsTracker'.stats.totalUsageTime
             = statsTracker.stats.totalUsageTime]_vars

Occurrences(apps, item) == Cardinality({i \in DOMAIN apps : apps[i] = item})

\* C25: after any drag-and-drop sequence, a drag abandoned without a drop
\* and followed by another drag included, reorderApps yields a permutation
\* of the previous list: the same multiset of apps with no missing,
\* duplicated or undefined entry, in the order of the grid elements at drop
\* time.
C25_ReorderIsPermutation ==
  last.op = "reorderApps" =>
    LET b == last.before
        apps == pinnedAppsManager.apps
    IN /\ Len(apps) = Len(b.apps) /\ Len(b.grid) = Len(b.apps)
       /\ \A i \in DOMAIN b.grid :
            /\ b.grid[i] + 1 \in DOMAIN b.apps
            /\ apps[i] = b.apps[b.grid[i] + 1]
       /\ \A i \in DOMAIN b.apps :
            Occurrences(apps, b.apps[i]) = Occurrences(b.apps, b.apps[i])

\* a drop on a grid of three in reverse order: one drag moves one element,
\* which cannot reverse three, so a drag that moved another element was
\* abandoned before this one
C25_DropAfterAbandonedDrag ==
  /\ last.op = "reorderApps"
  /\ last.before.grid = <<2, 1, 0>>
  /\ Len(pinnedAppsManager.apps) = 3
  /\ pinnedAppsManager.apps[1] = last.before.apps[3]

\* C26: whenever no drag is in progress the order of the rendered grid
\* elements is the order of the apps array, also after a drag that moved
\* elements during dragover and ended without a drop on an app item.
C26_GridOrderIsArrayOrder ==
  (pinnedAppsManager.pc = "ready" /\ pinnedAppsManager.draggedIndex = Null)
    => pinnedAppsManager.grid = RenderApps(pinnedAppsManager).grid

\* the images of a pool object
ImagesOf(p) == IF Has(p, "images") THEN {p.images[i] : i \in DOMAIN p.images} ELSE {}

\* the images of BackgroundEngine's upload pool
Uploaded == ImagesOf(Pool("uploadSettings"))

\* C27: images added to the upload pool through
\* BackgroundEngine.addUploadedImage remain in the Background module's pool,
\* in memory and in the persisted background settings, after any later
\* Settings save and the handling of its background notification: the step
\* that handles the notification keeps every image of the pool, and the
\* write it issued stores them.
C27_UploadsSurviveSettingsSave ==
  [][/\ last'.op = "saveSettings" => Uploaded \subseteq Uploaded'
     /\ (last'.op = "updateSettings" /\ last'.ok)
          => /\ Uploaded \subseteq Uploaded'
             /\ Has(store', "backgroundSettings")
             /\ Has(store'.backgroundSettings, "uploadSettings")
             /\ Uploaded \subseteq ImagesOf(store'.backgroundSettings.uploadSettings)]_vars

\* C30: when several background applications overlap (the start-up apply,
\* the new-tab cycle run from setupEventListeners, a visibility change, a
\* settings notification), then once all of them have completed the visible
\* background is the one chosen by the most recently started application,
\* whatever the order in which the image preloads finish.  Over the upload
\* pool in sequential order the latest application chose the image at the
\* last cursor picked.
C30_LatestApplicationShows ==
  LET run == seq.uploadSettings
      p == Pool("uploadSettings")
  IN (/\ backgroundEngine.pc = "ready" /\ backgroundEngine.tasks = <<>>
      /\ run.on /\ run.picks # <<>>)
     => backgroundEngine.style.backgroundImage
          = p.images[run.picks[Len(run.picks)] + 1]

\* the entries of the session log appended since the page opened
AppendedSince(sessions, opened) ==
  SelectSeq(sessions, LAMBDA e : DateOf(e.date) >= opened)

RECURSIVE TotalDuration(_)
TotalDuration(sessions) ==
  IF sessions = <<>> THEN 0
  ELSE Head(sessions).duration + TotalDuration(Tail(sessions))

\* C28: across any sequence of blur, focus and unload events in one page
\* lifetime, each second of accrued active time is in the duration of at
\* most one session log entry: the durations of the entries appended in that
\* lifetime sum to no more than the active time accrued in it.
C28_ActiveTimeLoggedOnce ==
  TotalDuration(AppendedSince(statsTracker.stats.sessions, Opened))
    <= statsTracker.currentSession.activeTime
====
